---- MODULE Spec2Model ----
(***************************************************************************)
(* A model of the asset cache of assets_manager: the type-erased cache     *)
(* entry and its lock (src/src/lock.rs), the sources                       *)
(* (src/src/source/filesystem.rs, src/src/source/embedded.rs), the loaders *)
(* (src/src/loader/mod.rs) and the cache table built on them.              *)
(*                                                                         *)
(* Strings of the program (ids, extensions, paths, file contents) are      *)
(* tuples of one-character strings, so that splitting, joining and parsing *)
(* are computed character by character as the code does.                   *)
(***************************************************************************)
EXTENDS Integers, Sequences, FiniteSets, TLC

VARIABLES
    heap,       \* the allocator's heap: address -> the Box<RwLock<T>> stored there
    table,      \* AssetCache.assets: key (type, id) -> CacheEntry
    hs,         \* the AssetRefLock handles the user keeps in variables; the
                \* handle of an entry that is gone is compared, never read
    gs,         \* the read guards (AssetRef) of the user: for each handle
                \* variable, the address of the lock its guard holds, or 0
    wr,         \* the workers: where each stands in CacheEntry::write
    disk,       \* the file system under the source's root
    made,       \* number of asset values constructed so far
    dropped,    \* value identity -> number of times its destructor has run
    edits,      \* number of file system edits so far
    reloader,   \* FileSystem.reloader and the hot-reloader behind it
    res         \* what the last operation did and returned

vars == <<heap, table, hs, gs, wr, disk, made, dropped, edits, reloader, res>>

-----------------------------------------------------------------------------
(* Bounds of the model *)

\* addresses the allocator can hand out
MaxAddr == 2
\* asset values constructed in one behaviour
MaxInst == 3
\* asset values the cache constructs (loads, inserts, reloads) in one behaviour
MaxLoads == 2
\* edits of the file system in one behaviour
MaxEdits == 1

Addrs == 1..MaxAddr
Insts == 1..MaxInst
\* the variables in which the user keeps handles: "h" receives the handle an
\* operation returns, "old" keeps a copy of an earlier one
HandleVars == {"h", "old"}
\* the threads that write (the reload workers)
Workers == {"w1", "w2"}

-----------------------------------------------------------------------------
(* Strings *)

Dot == "."
Slash == "/"
Digits == <<"0", "1", "2", "3", "4", "5", "6", "7", "8", "9">>

\* str.starts_with
StartsWith(s, c) == Len(s) > 0 /\ s[1] = c

\* str.ends_with
EndsWith(s, c) == Len(s) > 0 /\ s[Len(s)] = c

\* position of the last occurrence of c in s, 0 when there is none (str.rfind)
RECURSIVE RFind(_, _)
RFind(s, c) ==
    IF Len(s) = 0 THEN 0
    ELSE IF s[Len(s)] = c THEN Len(s)
    ELSE RFind(SubSeq(s, 1, Len(s) - 1), c)

\* position of the first occurrence of c in s, 0 when there is none (str.find)
RECURSIVE Find(_, _)
Find(s, c) ==
    IF Len(s) = 0 THEN 0
    ELSE IF s[1] = c THEN 1
    ELSE LET r == Find(Tail(s), c) IN IF r = 0 THEN 0 ELSE r + 1

\* str.split(c): the segments between the occurrences of c, empty ones included
RECURSIVE Split(_, _)
Split(s, c) ==
    LET i == Find(s, c) IN
    IF i = 0 THEN <<s>>
    ELSE <<SubSeq(s, 1, i - 1)>> \o Split(SubSeq(s, i + 1, Len(s)), c)

-----------------------------------------------------------------------------
(* Paths (std::path::PathBuf on a Unix file system): a path is its text *)

\* Option<&str>
None == [some |-> FALSE, v |-> <<>>]
Some(v) == [some |-> TRUE, v |-> v]

\* PathBuf::push: an absolute component replaces the path, any other is
\* appended after a separator
Push(path, comp) ==
    IF StartsWith(comp, Slash) THEN comp
    ELSE IF Len(path) > 0 /\ ~EndsWith(path, Slash) THEN path \o <<Slash>> \o comp
    ELSE path \o comp

\* PathBuf::extend: push every component in turn
RECURSIVE Extend(_, _)
Extend(path, comps) ==
    IF Len(comps) = 0 THEN path
    ELSE Extend(Push(path, Head(comps)), Tail(comps))

\* the text of a path up to the end of its last component: trailing
\* separators and trailing "." components are not components
RECURSIVE TrimTrailing(_)
TrimTrailing(path) ==
    IF Len(path) > 1 /\ EndsWith(path, Slash)
    THEN TrimTrailing(SubSeq(path, 1, Len(path) - 1))
    ELSE IF Len(path) > 1 /\ EndsWith(path, Dot) /\ path[Len(path) - 1] = Slash
    THEN TrimTrailing(SubSeq(path, 1, Len(path) - 1))
    ELSE path

\* the paths of the directory of the source and of its files: what the path
\* functions give for them is computed once and looked up afterwards
KnownPaths ==
    {<<Slash, "r", Slash, "t">>}
    \cup {<<Slash, "r", Slash, "t", Slash, n, Dot, e>> : n \in {"a", "b"}, e \in {"x", "y"}}

\* Path::file_name: the last component when it is a normal one
ComputeFileName(path) ==
    LET t == TrimTrailing(path)
        name == SubSeq(t, RFind(t, Slash) + 1, Len(t))
    IN  IF name = <<>> \/ name = <<Dot>> \/ name = <<Dot, Dot>>
        THEN None ELSE Some(name)
FileNameTable == [p \in KnownPaths |-> ComputeFileName(p)]
FileName(path) ==
    IF path \in KnownPaths THEN FileNameTable[path] ELSE ComputeFileName(path)

\* length of the stem of a file name: up to the last dot, the whole name
\* when it has no dot or only a leading one (rsplit_file_at_dot)
StemLen(name) ==
    LET i == RFind(name, Dot) IN IF i <= 1 THEN Len(name) ELSE i - 1

\* Path::file_stem
FileStem(path) ==
    LET f == FileName(path) IN
    IF f.some THEN Some(SubSeq(f.v, 1, StemLen(f.v))) ELSE None

\* Path::extension
Extension(path) ==
    LET f == FileName(path)
        i == RFind(f.v, Dot)
    IN  IF f.some /\ i > 1 THEN Some(SubSeq(f.v, i + 1, Len(f.v))) ELSE None

\* a faulty set_extension that adds "." ext to whatever the path is
SetExtension_append(path, ext) == path \o <<Dot>> \o ext

\* PathBuf::set_extension: nothing without a file name; else the path is cut
\* right after the stem of its file name and "." ext is added when ext is
\* not empty
SetExtension(path, ext) ==
    LET f == ComputeFileName(path)
        t == TrimTrailing(path)
        cut == SubSeq(t, 1, Len(t) - Len(f.v) + StemLen(f.v))
    IN  IF ~f.some THEN path
        ELSE IF ext = <<>> THEN cut
        ELSE cut \o <<Dot>> \o ext

\* the components the operating system walks for a path: empty and "."
\* components are skipped, ".." steps back to the parent
RECURSIVE Walk(_, _)
Walk(comps, acc) ==
    IF Len(comps) = 0 THEN acc
    ELSE LET c == Head(comps) IN
         IF c = <<>> \/ c = <<Dot>> THEN Walk(Tail(comps), acc)
         ELSE IF c = <<Dot, Dot>>
         THEN Walk(Tail(comps), IF Len(acc) = 0 THEN acc ELSE SubSeq(acc, 1, Len(acc) - 1))
         ELSE Walk(Tail(comps), Append(acc, c))

ComputeResolve(path) == Walk(Split(path, Slash), <<>>)
ResolveTable == [p \in KnownPaths |-> ComputeResolve(p)]
Resolve(path) ==
    IF path \in KnownPaths THEN ResolveTable[path] ELSE ComputeResolve(path)

-----------------------------------------------------------------------------
(* The file system *)

\* io::Result of a file system call
IoOk(v) == [st |-> "ok", v |-> v]
IoNotFound == [st |-> "notfound", v |-> <<>>]
IoError == [st |-> "io", v |-> <<>>]

\* FileSystem.path: the canonicalized root of the source
Root == <<Slash, "r">>

\* the directories of the file system, as resolved component lists: "/",
\* the root "/r" of the source and its directory "/r/t", and a directory
\* "/l" that cannot be read
Dirs == {<<>>, <<<<"r">>>>, <<<<"r">>, <<"t">>>>, <<<<"l">>>>}
Unreadable == {<<<<"l">>>>}

\* the names a directory of the source may hold, in the order the operating
\* system lists them
DirOrder == << <<"a", Dot, "x">>, <<"a", Dot, "y">>, <<"b", Dot, "x">>, <<"b", Dot, "y">> >>

\* the places of the files that may exist
FilePlaces == {<<<<"r">>, <<"t">>, DirOrder[i]>> : i \in 1..Len(DirOrder)}

\* what a place holds: nothing, a readable file, or a file that cannot be read
NoFile == [kind |-> "none", bytes |-> <<>>]
File(bytes) == [kind |-> "file", bytes |-> bytes]
Denied == [kind |-> "denied", bytes |-> <<>>]

\* the places whose file changes while the cache runs
Editable == {p \in FilePlaces : p[3] \in {<<"a", Dot, "x">>, <<"a", Dot, "y">>}}

\* what the files are changed to while the cache runs
EditNodes == {NoFile, File(<<"2">>)}

\* std::fs::read
FsRead(path) ==
    LET r == Resolve(path) IN
    IF r \in DOMAIN disk
    THEN CASE disk[r].kind = "file" -> IoOk(disk[r].bytes)
           [] disk[r].kind = "denied" -> IoError
           [] OTHER -> IoNotFound
    ELSE IF r \in Dirs THEN IoError ELSE IoNotFound

\* Path::is_file
IsFile(path) ==
    LET r == Resolve(path) IN r \in DOMAIN disk /\ disk[r].kind # "none"

\* the entries std::fs::read_dir yields for a directory: the path of each
\* child, in listing order
RECURSIVE Listing(_, _, _)
Listing(path, r, i) ==
    IF i > Len(DirOrder) THEN <<>>
    ELSE (IF Append(r, DirOrder[i]) \in DOMAIN disk /\ disk[Append(r, DirOrder[i])].kind # "none"
          THEN <<Push(path, DirOrder[i])>> ELSE <<>>) \o Listing(path, r, i + 1)

\* the sub-directories of a directory
SubDirs(path, r) ==
    IF r = <<>> THEN <<Push(path, <<"l">>), Push(path, <<"r">>)>>
    ELSE IF r = <<<<"r">>>> THEN <<Push(path, <<"t">>)>>
    ELSE <<>>

\* a faulty read_dir that lists whatever the path names
FsReadDir_any(path) == IoOk(<<>>)

\* std::fs::read_dir
FsReadDir(path) ==
    LET r == Resolve(path) IN
    IF r \in Unreadable THEN IoError
    ELSE IF r \in Dirs THEN IoOk(SubDirs(path, r) \o Listing(path, r, 1))
    ELSE IF r \in DOMAIN disk /\ disk[r].kind # "none" THEN IoError
    ELSE IoNotFound

\* the text of the absolute path of a list of components
RECURSIVE JoinPath(_)
JoinPath(comps) ==
    IF Len(comps) = 0 THEN <<Slash>>
    ELSE IF Len(comps) = 1 THEN <<Slash>> \o comps[1]
    ELSE JoinPath(SubSeq(comps, 1, Len(comps) - 1)) \o <<Slash>> \o comps[Len(comps)]

\* Path::canonicalize: the absolute path of what the path names, NotFound
\* when it names nothing; a relative path starts at the current directory,
\* which is "/"
Canonicalize(path) ==
    LET r == Resolve(path) IN
    IF r \in Dirs \/ (r \in DOMAIN disk /\ disk[r].kind # "none")
    THEN IoOk(JoinPath(r)) ELSE IoNotFound

-----------------------------------------------------------------------------
(* The file system source (src/src/source/filesystem.rs) *)

\* slice::contains
Contains(seq, x) == \E i \in 1..Len(seq) : seq[i] = x

\* extension_of
extension_of(path) ==
    LET e == Extension(path) IN IF e.some THEN e ELSE Some(<<>>)

\* a faulty has_extension that accepts every path
has_extension_any(path, ext) == TRUE

\* has_extension
has_extension(path, ext) ==
    LET e == extension_of(path) IN
    IF e.some THEN Contains(ext, e.v) ELSE FALSE

\* FileSystem::path_of; for the ids and extensions the cache is asked for
\* it is computed once and looked up afterwards
ComputePathOf(id, ext) == SetExtension(Extend(Root, Split(id, Dot)), ext)
KnownIds == {<<"t">>, <<"t", Dot, "a">>, <<"t", Dot, "b">>}
KnownExts == {<<>>, <<"x">>, <<"y">>}
PathOfTable == [id \in KnownIds |-> [ext \in KnownExts |-> ComputePathOf(id, ext)]]

\* a faulty path_of that leaves the extension out
path_of_stem(id, ext) == ComputePathOf(id, <<>>)

path_of(id, ext) ==
    IF id \in KnownIds /\ ext \in KnownExts
    THEN PathOfTable[id][ext] ELSE ComputePathOf(id, ext)

\* a faulty read, which gives the first content whatever the file holds
read_first(id, ext) == IoOk(<<"1">>)

\* FileSystem::read
read(id, ext) == FsRead(path_of(id, ext))

\* the loop of FileSystem::read_dir over the entries
RECURSIVE ReadDirLoop(_, _)
ReadDirLoop(entries, ext) ==
    IF Len(entries) = 0 THEN <<>>
    ELSE LET path == Head(entries)
             name == FileStem(path)
         IN  (IF has_extension(path, ext) /\ name.some /\ IsFile(path)
              THEN <<name.v>> ELSE <<>>) \o ReadDirLoop(Tail(entries), ext)

\* FileSystem::read_dir
read_dir(id, ext) ==
    LET entries == FsReadDir(path_of(id, <<>>)) IN
    IF entries.st = "ok" THEN IoOk(ReadDirLoop(entries.v, ext)) ELSE entries

\* the outcomes of FileSystem::_new(path, hot_reloading): the path is
\* canonicalized and its directory is read, and an error of either is
\* returned at once; only then is the hot-reloader started, when asked for,
\* and a failure to start it leaves the source without one
FileSystem_new(path, hot) ==
    LET c == Canonicalize(path)
        d == FsReadDir(c.v)
        failed(st) == [st |-> st, path |-> <<>>, reloader |-> "none"]
    IN  IF c.st # "ok" THEN {failed(c.st)}
        ELSE IF d.st # "ok" THEN {failed(d.st)}
        ELSE {[st |-> "ok", path |-> c.v, reloader |-> r]
              : r \in IF hot THEN {"started", "none"} ELSE {"none"}}

-----------------------------------------------------------------------------
(* The embedded source (src/src/source/embedded.rs) *)

\* RawEmbedded: files is a list of pairs <<<<id, ext>>, content>>, dirs a
\* list of pairs <<id, list of <<child, ext>>>>

\* Iterator::collect into a HashMap: every pair is inserted in turn, so that
\* a key holds the value of its last pair
Collect(pairs) ==
    [k \in {pairs[i][1] : i \in 1..Len(pairs)} |->
        pairs[CHOOSE i \in 1..Len(pairs) :
                 /\ pairs[i][1] = k
                 /\ \A j \in 1..Len(pairs) : pairs[j][1] = k => j <= i][2]]

\* impl From<RawEmbedded> for Embedded
Embedded_from(raw) == [files |-> Collect(raw.files), dirs |-> Collect(raw.dirs)]

\* Embedded::read
Embedded_read(self, id, ext) ==
    IF <<id, ext>> \in DOMAIN self.files
    THEN IoOk(self.files[<<id, ext>>]) ELSE IoNotFound

\* the children of a directory of the tables whose extension is among ext
RECURSIVE FilterMap(_, _)
FilterMap(dir, ext) ==
    IF Len(dir) = 0 THEN <<>>
    ELSE (IF Contains(ext, Head(dir)[2]) THEN <<Head(dir)[1]>> ELSE <<>>)
         \o FilterMap(Tail(dir), ext)

\* a faulty read_dir that reports a directory without matching child as
\* missing
Embedded_read_dir_strict(self, id, ext) ==
    IF id \in DOMAIN self.dirs /\ FilterMap(self.dirs[id], ext) # <<>>
    THEN IoOk(FilterMap(self.dirs[id], ext)) ELSE IoNotFound

\* Embedded::read_dir
Embedded_read_dir(self, id, ext) ==
    IF id \in DOMAIN self.dirs
    THEN IoOk(FilterMap(self.dirs[id], ext)) ELSE IoNotFound

-----------------------------------------------------------------------------
(* Loaders (src/src/loader/mod.rs) *)

\* Result<T, BoxedError>: the value, or the error that was boxed
Ok(v) == [ok |-> TRUE, v |-> v, err |-> "-"]
Err(e) == [ok |-> FALSE, v |-> 0, err |-> e]

IsDigit(c) == \E i \in 1..10 : Digits[i] = c
DigitVal(c) == (CHOOSE i \in 1..10 : Digits[i] = c) - 1

\* the digits of a decimal number, most significant first, onto acc: every
\* step converts the digit (InvalidDigit), then is a checked multiplication
\* by ten and a checked addition (or, for a negative number, subtraction)
\* of the digit (PosOverflow, NegOverflow)
RECURSIVE ParseDigits(_, _, _)
ParseDigits(s, acc, neg) ==
    LET overflow == IF neg THEN "NegOverflow" ELSE "PosOverflow" IN
    IF Len(s) = 0 THEN Ok(acc)
    ELSE IF ~IsDigit(Head(s)) THEN Err("InvalidDigit")
    ELSE IF acc > 214748364 \/ acc < -214748364 THEN Err(overflow)
    ELSE LET d == DigitVal(Head(s)) IN
         IF neg /\ acc * 10 < (-2147483647 - 1) + d THEN Err(overflow)
         ELSE IF ~neg /\ acc * 10 > 2147483647 - d THEN Err(overflow)
         ELSE ParseDigits(Tail(s), IF neg THEN acc * 10 - d ELSE acc * 10 + d, neg)

\* <i32 as FromStr>::from_str: an optional sign, then at least one digit and
\* only digits, the value within the range of i32; the empty text is Empty,
\* a sign alone InvalidDigit
ParseI32(s) ==
    LET neg == StartsWith(s, "-")
        body == IF neg \/ StartsWith(s, "+") THEN Tail(s) ELSE s
    IN  IF Len(s) = 0 THEN Err("Empty")
        ELSE IF Len(body) = 0 THEN Err("InvalidDigit")
        ELSE ParseDigits(body, 0, neg)

\* the byte that is not part of any UTF-8 text
BadByte == "<FF>"

\* str::from_utf8
IsUtf8(content) == ~Contains(content, BadByte)

\* a faulty loader, which drops the bytes that are no text before it parses
\* (from_utf8_lossy)
ParseLoader_load_lossy(content, ext) ==
    ParseI32(SelectSeq(content, LAMBDA b : b # BadByte))

\* ParseLoader::load, for T = i32
ParseLoader_load(content, ext) ==
    IF IsUtf8(content) THEN ParseI32(content) ELSE Err("Utf8Error")

\* the conversion U -> T of the asset types: From<i32> wraps the number
Into(T, n) == [ty |-> T, n |-> n]

\* a faulty loader that makes an asset of any bytes
LoadFrom_load_any(T, content, ext) == Ok(Into(T, 0))

\* LoadFrom<i32, ParseLoader>::load, producing an asset of type T
LoadFrom_load(T, content, ext) ==
    LET r == ParseLoader_load(content, ext) IN
    IF r.ok THEN Ok(Into(T, r.v)) ELSE r

-----------------------------------------------------------------------------
(* Assets and the heap *)

\* the asset types: X is the asset of the tests (one extension); Y is an
\* asset with two extensions, tried in the order given
Types == {"X", "Y"}
EXTENSIONS(T) == IF T = "X" THEN << <<"x">> >> ELSE << <<"y">>, <<"x">> >>

\* the ids the cache is asked for, and the id of their directory
Ids == {<<"t", Dot, "a">>, <<"t", Dot, "b">>}
DirId == <<"t">>
Keys == Types \X Ids
NoKey == <<"-", <<>>>>

\* an asset value: its type and number, and the identity under which its
\* destructor is counted (the DropCounter of the tests)
Val(id, asset) == [id |-> id, ty |-> asset.ty, n |-> asset.n]
NoVal == [id |-> 0, ty |-> "-", n |-> 0]

\* a heap cell: a live Box<RwLock<T>> with the state of its lock, or free
\* memory
FreeCell == [live |-> FALSE, val |-> NoVal, readers |-> 0, writer |-> FALSE]

\* Box::new(RwLock::new(asset)) at address a
BoxNew(h, a, v) ==
    [h EXCEPT ![a] = [live |-> TRUE, val |-> v, readers |-> 0, writer |-> FALSE]]

\* the addresses the allocator may return
FreeAddrs(h) == {a \in Addrs : ~h[a].live}

\* RwLock::read returns once no writer holds the lock
CanRead(h, a) == h[a].live /\ ~h[a].writer

\* a faulty lock, whose write does not wait for the readers
CanWriteUnchecked(h, a) == h[a].live /\ ~h[a].writer

\* RwLock::write returns once no reader and no writer hold the lock
CanWrite(h, a) == h[a].live /\ ~h[a].writer /\ h[a].readers = 0

-----------------------------------------------------------------------------
(* Cache entries and handles (src/src/lock.rs) *)

\* a CacheEntry: data and drop_concrete are its fields; eid (the identity of
\* the entry: that of the value it was created with) and written (the
\* identity of the value of the last completed write, 0 before any) are
\* history fields the program does not read
NoEntry == [data |-> 0, drop_concrete |-> "-", eid |-> 0, written |-> 0]

\* an AssetRefLock<A>: data is its field, ty its type parameter; eid (the
\* entry it was borrowed from) and seen (that entry's written when it was
\* borrowed) are history fields
NoHandle == [data |-> 0, ty |-> "-", eid |-> 0, seen |-> 0]

\* CacheEntry::new: the entry made of a fresh box at address a
CacheEntry_new(a, v) ==
    [data |-> a, drop_concrete |-> v.ty, eid |-> v.id, written |-> 0]

\* a faulty get_ref, whose handle points at the entry and not at the box
ContreteCacheEntry_get_ref_inline(concrete, T) ==
    [data |-> 0, ty |-> T, eid |-> concrete.eid, seen |-> concrete.written]

\* ContreteCacheEntry::get_ref: a handle on the lock in the box
ContreteCacheEntry_get_ref(concrete, T) ==
    [data |-> concrete.data, ty |-> T, eid |-> concrete.eid, seen |-> concrete.written]

\* a faulty get_ref, which gives no handle
CacheEntry_get_ref_null(self, T) == NoHandle

\* CacheEntry::get_ref: the entry seen as a ContreteCacheEntry<T>
CacheEntry_get_ref(self, T) == ContreteCacheEntry_get_ref(self, T)

\* a faulty ptr_eq, which compares the handles and not the locks
ptr_eq_handles(self, other) == FALSE

\* AssetRefLock::ptr_eq
ptr_eq(self, other) == self.data = other.data

\* faulty assignments: one frees the box, one leaves the old value
WriteAssignDropBox(h, a, v) == [h EXCEPT ![a] = FreeCell]
WriteAssignSkip(h, a, v) == h

\* `*cached_guard = asset` in CacheEntry::write: the value in the box is
\* replaced in place
WriteAssign(h, a, v) == [h EXCEPT ![a].val = v]

\* a faulty into_inner, which gives no value
into_inner_garbage(h, self) == NoVal

\* ContreteCacheEntry::into_inner: the value of the box, which is freed
\* without running the value's destructor
into_inner(h, self) == h[self.data].val

\* a faulty drop_data, which frees the box without running the destructor
drop_data_forget(d, v) == d

\* CacheEntry::drop_data: the destructor of the value runs, the box is freed
drop_data(d, v) == [d EXCEPT ![v.id] = @ + 1]

-----------------------------------------------------------------------------
(* The cache (AssetCache): its table and its operations *)

NoAsset == [ty |-> "-", n |-> 0]

\* FileSystem.reloader when it is None: no hot-reloader was started, so
\* that there is no channel, no registration and no event. asked (whether
\* the source was made with hot-reloading) and done (the tasks of the
\* current batch that have run) are history fields
NoReloader ==
    [started |-> FALSE, queue |-> <<>>, assets |-> {}, dirs |-> {}, compounds |-> {},
     events |-> {}, tasks |-> <<>>, done |-> <<>>, asked |-> FALSE]

\* a reload worker that is not inside CacheEntry::write
IdleWorker == [pc |-> "idle", key |-> NoKey, lock |-> NoHandle, asset |-> NoVal]

\* the record of the last operation: its name, key, outcome, the value it
\* returned (a handle it returns is kept in hs.h), the number of calls it
\* made to the source, the per-child results of a directory load, and what
\* came before it: for a load, the successful load or remove of the same key
\* that it follows, or the change of a file ("edit") that followed a failed
\* load of the same key; for a change of a file, the failed load it follows
\* ("failed"), of which it keeps the key
Result(op, key, st, v, reads, dir) ==
    LET failed == res.op = "load" /\ res.st # "ok" IN
    [op |-> op,
     key |-> IF op = "edit" /\ failed THEN res.key ELSE key,
     st |-> st, v |-> v, reads |-> reads, dir |-> dir,
     prev |-> IF op = "load" /\ res.key = key /\ res.st = "ok"
                             /\ res.op \in {"load", "remove"}
              THEN res.op
              ELSE IF op = "edit" /\ failed THEN "failed"
              ELSE IF op = "load" /\ res.op = "edit" /\ res.prev = "failed"
                                  /\ res.key = key
              THEN "edit"
              ELSE "-"]

\* the files of the directory at the start: a.x holds a number
InitDisk ==
    [p \in FilePlaces |->
        IF p[3] = <<"a", Dot, "x">> THEN File(<<"1">>) ELSE NoFile]

Init ==
    /\ heap = [a \in Addrs |-> FreeCell]
    /\ table = [k \in Keys |-> NoEntry]
    /\ hs = [hv \in HandleVars |-> NoHandle]
    /\ gs = [hv \in HandleVars |-> 0]
    /\ wr = [w \in Workers |-> IdleWorker]
    /\ disk = InitDisk
    /\ made = 0
    /\ dropped = [i \in Insts |-> 0]
    /\ edits = 0
    /\ reloader = NoReloader
    /\ res = [op |-> "new", key |-> NoKey, st |-> "ok", v |-> NoVal,
              reads |-> 0, dir |-> <<>>, prev |-> "-"]

\* the load of an asset from the source: the extensions of T are read in
\* order up to the first that has bytes, which the loader of T converts
RECURSIVE TryExtensions(_, _, _, _, _)
TryExtensions(T, id, exts, n, sawIo) ==
    IF Len(exts) = 0
    THEN [st |-> IF sawIo THEN "io" ELSE "notfound", asset |-> NoAsset, reads |-> n]
    ELSE LET r == read(id, Head(exts)) IN
         IF r.st = "ok"
         THEN LET l == LoadFrom_load(T, r.v, Head(exts)) IN
              IF l.ok THEN [st |-> "ok", asset |-> l.v, reads |-> n + 1]
              ELSE [st |-> "loader", asset |-> NoAsset, reads |-> n + 1]
         ELSE TryExtensions(T, id, Tail(exts), n + 1, sawIo \/ r.st = "io")

load_from_source(T, id) == TryExtensions(T, id, EXTENSIONS(T), 0, FALSE)

\* the outcomes of load<T>(id) on the cache c = [heap, table, made]: a handle
\* on the entry of (T, id) when there is one; else a load from the source
\* and, when it succeeds, a new entry at an address of the allocator's choice
LoadOutcomes(T, id, c) ==
    LET key == <<T, id>> IN
    IF c.table[key] # NoEntry
    THEN {[heap |-> c.heap, table |-> c.table, made |-> c.made, st |-> "ok",
           h |-> CacheEntry_get_ref(c.table[key], T), reads |-> 0]}
    ELSE LET l == load_from_source(T, id) IN
         IF l.st # "ok"
         THEN {[heap |-> c.heap, table |-> c.table, made |-> c.made, st |-> l.st,
                h |-> NoHandle, reads |-> l.reads]}
         ELSE IF c.made >= MaxLoads THEN {}
         ELSE {LET v == Val(c.made + 1, l.asset)
                   e == CacheEntry_new(a, v)
               IN  [heap |-> BoxNew(c.heap, a, v),
                    table |-> [c.table EXCEPT ![key] = e],
                    made |-> c.made + 1, st |-> "ok",
                    h |-> CacheEntry_get_ref(e, T), reads |-> l.reads]
               : a \in FreeAddrs(c.heap)}

\* load<T>(id)
Load(T, id) ==
    \E o \in LoadOutcomes(T, id, [heap |-> heap, table |-> table, made |-> made]) :
        /\ heap' = o.heap
        /\ table' = o.table
        /\ made' = o.made
        /\ hs' = IF o.st = "ok" THEN [hs EXCEPT !.h = o.h] ELSE hs
        /\ res' = Result("load", <<T, id>>, o.st, NoVal, o.reads, <<>>)
        /\ UNCHANGED <<gs, wr, disk, dropped, edits>>

\* load_cached<T>(id): the lookup alone
LoadCached(T, id) ==
    LET key == <<T, id>>
        h == CacheEntry_get_ref(table[key], T)
    IN  /\ hs' = IF table[key] # NoEntry THEN [hs EXCEPT !.h = h] ELSE hs
        /\ res' = Result("load_cached", key,
                         IF table[key] # NoEntry THEN "some" ELSE "none", NoVal, 0, <<>>)
        /\ UNCHANGED <<heap, table, gs, wr, disk, made, dropped, edits>>

\* contains<T>(id)
ContainsKey(T, id) ==
    LET key == <<T, id>> IN
    /\ res' = Result("contains", key, IF table[key] # NoEntry THEN "true" ELSE "false",
                     NoVal, 0, <<>>)
    /\ UNCHANGED <<heap, table, hs, gs, wr, disk, made, dropped, edits>>

\* the outcomes of the loads of the children of a directory, one after the
\* other: the cache after them and the result of each child
RECURSIVE LoadDirOutcomes(_, _, _, _)
LoadDirOutcomes(T, names, c, acc) ==
    IF Len(names) = 0 THEN {[c |-> c, results |-> acc]}
    ELSE LET id == DirId \o <<Dot>> \o Head(names) IN
         UNION {LoadDirOutcomes(T, Tail(names),
                                [heap |-> o.heap, table |-> o.table, made |-> o.made],
                                Append(acc, [id |-> id, st |-> o.st]))
                : o \in LoadOutcomes(T, id, c)}

\* load_dir<T>(id): one read_dir of the source, then the load of each child
LoadDir(T) ==
    LET d == read_dir(DirId, EXTENSIONS(T)) IN
    IF d.st # "ok"
    THEN /\ res' = Result("load_dir", <<T, DirId>>, d.st, NoVal, 1, <<>>)
         /\ UNCHANGED <<heap, table, hs, gs, wr, disk, made, dropped, edits>>
    ELSE \E o \in LoadDirOutcomes(T, d.v, [heap |-> heap, table |-> table, made |-> made], <<>>) :
            /\ heap' = o.c.heap
            /\ table' = o.c.table
            /\ made' = o.c.made
            /\ res' = Result("load_dir", <<T, DirId>>, "ok", NoVal, 1, o.results)
            /\ UNCHANGED <<hs, gs, wr, disk, dropped, edits>>

\* the numbers of the values given to insert and to CacheEntry::new
GivenNums == {3}

\* insert<T>(id, value): the value becomes the entry of (T, id) when there is
\* none; the entry of a present key is kept and the value given is dropped
Insert(T, id, n) ==
    LET key == <<T, id>>
        v == Val(made + 1, [ty |-> T, n |-> n])
    IN  /\ made < MaxLoads
        /\ made' = made + 1
        /\ IF table[key] # NoEntry
           THEN /\ dropped' = [dropped EXCEPT ![v.id] = @ + 1]
                /\ hs' = [hs EXCEPT !.h = CacheEntry_get_ref(table[key], T)]
                /\ res' = Result("insert", key, "kept", v, 0, <<>>)
                /\ UNCHANGED <<heap, table>>
           ELSE \E a \in FreeAddrs(heap) :
                LET e == CacheEntry_new(a, v) IN
                /\ heap' = BoxNew(heap, a, v)
                /\ table' = [table EXCEPT ![key] = e]
                /\ hs' = [hs EXCEPT !.h = CacheEntry_get_ref(e, T)]
                /\ res' = Result("insert", key, "ok", v, 0, <<>>)
                /\ UNCHANGED dropped
        /\ UNCHANGED <<gs, wr, disk, edits>>

\* &mut self: no read guard is alive and no worker is inside the cache
ExclusiveAccess ==
    /\ \A hv \in HandleVars : gs[hv] = 0
    /\ \A w \in Workers : wr[w].pc = "idle"

\* a faulty drop of an entry that frees every box of the heap
CacheEntry_drop_every(c, self) ==
    [heap |-> [a \in Addrs |-> FreeCell],
     dropped |-> drop_data(c.dropped, c.heap[self.data].val)]

\* impl Drop for CacheEntry: drop_concrete, which is drop_data::<T>, drops
\* the box: the destructor of its value runs and its memory is freed.
\* c = [heap, dropped]
CacheEntry_drop(c, self) ==
    [heap |-> [c.heap EXCEPT ![self.data] = FreeCell],
     dropped |-> drop_data(c.dropped, c.heap[self.data].val)]

\* remove<T>(id): the entry of (T, id) leaves the table and is dropped
Remove(T, id) ==
    LET key == <<T, id>>
        c == CacheEntry_drop([heap |-> heap, dropped |-> dropped], table[key])
    IN  /\ ExclusiveAccess
        /\ IF table[key] # NoEntry
           THEN /\ heap' = c.heap
                /\ dropped' = c.dropped
                /\ table' = [table EXCEPT ![key] = NoEntry]
                /\ res' = Result("remove", key, "ok", heap[table[key].data].val, 0, <<>>)
           ELSE /\ res' = Result("remove", key, "absent", NoVal, 0, <<>>)
                /\ UNCHANGED <<heap, dropped, table>>
        /\ UNCHANGED <<hs, gs, wr, disk, made, edits>>

\* take<T>(id): the entry of (T, id) leaves the table and gives its value
Take(T, id) ==
    LET key == <<T, id>> IN
    /\ ExclusiveAccess
    /\ IF table[key] # NoEntry
       THEN /\ heap' = [heap EXCEPT ![table[key].data] = FreeCell]
            /\ table' = [table EXCEPT ![key] = NoEntry]
            /\ res' = Result("take", key, "some", into_inner(heap, table[key]), 0, <<>>)
       ELSE /\ res' = Result("take", key, "none", NoVal, 0, <<>>)
            /\ UNCHANGED <<heap, table>>
    /\ UNCHANGED <<hs, gs, wr, disk, made, dropped, edits>>

\* the drop of every entry of a set, one after the other
RECURSIVE DropAll(_, _)
DropAll(c, ks) ==
    IF ks = {} THEN c
    ELSE LET k == CHOOSE x \in ks : TRUE IN
         DropAll(CacheEntry_drop(c, table[k]), ks \ {k})

\* the cache is dropped, and with it every entry of the table; the steps
\* after it are those of a cache made anew on the same source
DropCache ==
    LET c == DropAll([heap |-> heap, dropped |-> dropped],
                     {k \in Keys : table[k] # NoEntry})
    IN  /\ ExclusiveAccess
        /\ heap' = c.heap
        /\ dropped' = c.dropped
        /\ table' = [k \in Keys |-> NoEntry]
        /\ res' = Result("drop_cache", NoKey, "ok", NoVal, 0, <<>>)
        /\ UNCHANGED <<hs, gs, wr, disk, made, edits>>

-----------------------------------------------------------------------------
(* Reloads: CacheEntry::write, step by step *)

\* a faulty reload that takes the write lock of the entry before it loads
\* the asset and returns without releasing it when the load fails
Reload_poison(w, T, id) ==
    LET key == <<T, id>>
        l == load_from_source(T, id)
    IN  /\ wr[w].pc = "idle"
        /\ table[key] # NoEntry
        /\ IF l.st # "ok"
           THEN /\ heap' = [heap EXCEPT ![table[key].data].writer = TRUE]
                /\ res' = Result("reload", key, l.st, NoVal, l.reads, <<>>)
                /\ UNCHANGED <<wr, made>>
           ELSE /\ made < MaxLoads
                /\ made' = made + 1
                /\ wr' = [wr EXCEPT ![w] = [pc |-> "waiting", key |-> key,
                                            lock |-> CacheEntry_get_ref(table[key], T),
                                            asset |-> Val(made + 1, l.asset)]]
                /\ res' = Result("reload", key, "ok", NoVal, l.reads, <<>>)
                /\ UNCHANGED heap
        /\ UNCHANGED <<table, hs, gs, disk, dropped, edits>>

\* a reload of (T, id) by worker w: the asset is loaded from the source
\* again; a failure is logged and changes nothing, a success calls
\* CacheEntry::write, which borrows the lock (get_ref) and waits for it
Reload(w, T, id) ==
    LET key == <<T, id>>
        l == load_from_source(T, id)
    IN  /\ wr[w].pc = "idle"
        /\ table[key] # NoEntry
        /\ IF l.st # "ok"
           THEN /\ res' = Result("reload", key, l.st, NoVal, l.reads, <<>>)
                /\ UNCHANGED <<wr, made>>
           ELSE /\ made < MaxLoads
                /\ made' = made + 1
                /\ wr' = [wr EXCEPT ![w] = [pc |-> "waiting", key |-> key,
                                            lock |-> CacheEntry_get_ref(table[key], T),
                                            asset |-> Val(made + 1, l.asset)]]
                /\ res' = Result("reload", key, "ok", NoVal, l.reads, <<>>)
        /\ UNCHANGED <<heap, table, hs, gs, disk, dropped, edits>>

\* the numbers of the values given to write
WriteNums == {4}

\* CacheEntry::write::<T>(asset) on the entry of (T, id), called by thread w:
\* the lock is borrowed (get_ref) and the thread waits for it
Write(w, T, id, n) ==
    LET key == <<T, id>> IN
    /\ wr[w].pc = "idle"
    /\ table[key] # NoEntry
    /\ made < MaxInst
    /\ made' = made + 1
    /\ wr' = [wr EXCEPT ![w] = [pc |-> "waiting", key |-> key,
                                lock |-> CacheEntry_get_ref(table[key], T),
                                asset |-> Val(made + 1, [ty |-> T, n |-> n])]]
    /\ res' = Result("write_call", NoKey, "ok", NoVal, 0, <<>>)
    /\ UNCHANGED <<heap, table, hs, gs, disk, dropped, edits>>

\* the thread that holds the guard kept beside a handle: the main thread
\* reads through h, the second writer thread through old
GuardOwner == [hv \in HandleVars |-> IF hv = "h" THEN "main" ELSE "w2"]

\* the read guards the thread w holds on the lock at address a
OwnGuards(w, a) == {hv \in HandleVars : GuardOwner[hv] = w /\ gs[hv] = a}

\* a faulty lock, whose write does not count the read guards of the calling
\* thread
WriteLock_reentrant(w) ==
    /\ wr[w].pc = "waiting"
    /\ wr[w].lock.data \in Addrs
    /\ heap[wr[w].lock.data].live /\ ~heap[wr[w].lock.data].writer
    /\ heap[wr[w].lock.data].readers = Cardinality(OwnGuards(w, wr[w].lock.data))
    /\ heap' = [heap EXCEPT ![wr[w].lock.data].writer = TRUE]
    /\ wr' = [wr EXCEPT ![w].pc = "locked"]
    /\ res' = Result("write_lock", NoKey, "ok", NoVal, 0, <<>>)
    /\ UNCHANGED <<table, hs, gs, disk, made, dropped, edits>>

\* a faulty write, which takes the lock of every entry of the table and not
\* only that of its own
WriteLock_table(w) ==
    /\ wr[w].pc = "waiting"
    /\ wr[w].lock.data \in Addrs
    /\ CanWrite(heap, wr[w].lock.data)
    /\ heap' = [a \in Addrs |-> IF heap[a].live THEN [heap[a] EXCEPT !.writer = TRUE]
                                 ELSE heap[a]]
    /\ wr' = [wr EXCEPT ![w].pc = "locked"]
    /\ res' = Result("write_lock", NoKey, "ok", NoVal, 0, <<>>)
    /\ UNCHANGED <<table, hs, gs, disk, made, dropped, edits>>

\* rwlock::write(&lock.data): the worker gets the write guard
WriteLock(w) ==
    /\ wr[w].pc = "waiting"
    /\ wr[w].lock.data \in Addrs
    /\ CanWrite(heap, wr[w].lock.data)
    /\ heap' = [heap EXCEPT ![wr[w].lock.data].writer = TRUE]
    /\ wr' = [wr EXCEPT ![w].pc = "locked"]
    /\ res' = Result("write_lock", NoKey, "ok", NoVal, 0, <<>>)
    /\ UNCHANGED <<table, hs, gs, disk, made, dropped, edits>>

\* a faulty assignment, which runs the destructor of the new value and not
\* that of the one it replaces
WriteStore_drop_new(w) ==
    /\ wr[w].pc = "locked"
    /\ heap' = WriteAssign(heap, wr[w].lock.data, wr[w].asset)
    /\ dropped' = [dropped EXCEPT ![wr[w].asset.id] = @ + 1]
    /\ wr' = [wr EXCEPT ![w].pc = "stored"]
    /\ res' = Result("write_store", NoKey, "ok", NoVal, 0, <<>>)
    /\ UNCHANGED <<table, hs, gs, disk, made, edits>>

\* *cached_guard = asset: the new value takes the place of the old one,
\* whose destructor runs
WriteStore(w) ==
    /\ wr[w].pc = "locked"
    /\ heap' = WriteAssign(heap, wr[w].lock.data, wr[w].asset)
    /\ dropped' = [dropped EXCEPT ![heap[wr[w].lock.data].val.id] = @ + 1]
    /\ wr' = [wr EXCEPT ![w].pc = "stored"]
    /\ res' = Result("write_store", NoKey, "ok", NoVal, 0, <<>>)
    /\ UNCHANGED <<table, hs, gs, disk, made, edits>>

\* drop(cached_guard), and write returns the handle
WriteUnlock(w) ==
    LET lock == [wr[w].lock EXCEPT !.seen = wr[w].asset.id] IN
    /\ wr[w].pc = "stored"
    /\ heap' = [heap EXCEPT ![wr[w].lock.data].writer = FALSE]
    /\ table' = [table EXCEPT ![wr[w].key].written = wr[w].asset.id]
    /\ hs' = [hs EXCEPT !.h = lock]
    /\ wr' = [wr EXCEPT ![w] = IdleWorker]
    /\ res' = Result("write", wr[w].key, "ok", wr[w].asset, 0, <<>>)
    /\ UNCHANGED <<gs, disk, made, dropped, edits>>

-----------------------------------------------------------------------------
(* Handles and read guards *)

\* the key of the entry a handle was borrowed from, while that entry is in
\* the table
KeysOf(h) == {k \in Keys : table[k] # NoEntry /\ table[k].eid = h.eid}

\* AssetRefLock::read through the handle in hv: the read guard (AssetRef) is
\* kept beside it; the borrow of the cache keeps the entry in the table
\* while the handle is in use
ReadLock(hv) ==
    LET h == hs[hv] IN
    /\ h # NoHandle
    /\ gs[hv] = 0
    /\ KeysOf(h) # {}
    /\ h.data \in Addrs
    /\ CanRead(heap, h.data)
    /\ heap' = [heap EXCEPT ![h.data].readers = @ + 1]
    /\ gs' = [gs EXCEPT ![hv] = h.data]
    /\ res' = Result(hv, CHOOSE k \in KeysOf(h) : TRUE, "read", heap[h.data].val, 0, <<>>)
    /\ UNCHANGED <<table, hs, wr, disk, made, dropped, edits>>

\* the read guard kept beside hv is dropped
ReadUnlock(hv) ==
    /\ gs[hv] # 0
    /\ heap' = [heap EXCEPT ![gs[hv]].readers = @ - 1]
    /\ gs' = [gs EXCEPT ![hv] = 0]
    /\ res' = Result("read_unlock", NoKey, "ok", NoVal, 0, <<>>)
    /\ UNCHANGED <<table, hs, wr, disk, made, dropped, edits>>

\* impl Clone for AssetRefLock (it is Copy): the handle in h is kept in old
CloneHandle ==
    /\ hs.h # NoHandle
    /\ hs.old # hs.h
    /\ hs' = [hs EXCEPT !.old = hs.h]
    /\ res' = Result("clone", NoKey, "ok", NoVal, 0, <<>>)
    /\ UNCHANGED <<heap, table, gs, wr, disk, made, dropped, edits>>

-----------------------------------------------------------------------------
(* Entries used directly (the tests of lock.rs): table[k] is the variable
   that holds the entry named k *)

\* no borrow of the entry named key is in use: no read guard on its lock and
\* no thread inside write on it
Unborrowed(key) ==
    /\ \A hv \in HandleVars : gs[hv] = 0 \/ gs[hv] # table[key].data
    /\ \A w \in Workers : wr[w].pc = "idle" \/ wr[w].key # key

\* let entry = CacheEntry::new(value)
NewEntry(T, id, n) ==
    LET key == <<T, id>>
        v == Val(made + 1, [ty |-> T, n |-> n])
    IN  /\ table[key] = NoEntry
        /\ made < MaxInst
        /\ made' = made + 1
        /\ \E a \in FreeAddrs(heap) :
                /\ heap' = BoxNew(heap, a, v)
                /\ table' = [table EXCEPT ![key] = CacheEntry_new(a, v)]
        /\ res' = Result("new_entry", key, "ok", v, 0, <<>>)
        /\ UNCHANGED <<hs, gs, wr, disk, dropped, edits>>

\* entry.get_ref::<T>()
GetRef(T, id) ==
    LET key == <<T, id>> IN
    /\ table[key] # NoEntry
    /\ hs' = [hs EXCEPT !.h = CacheEntry_get_ref(table[key], T)]
    /\ res' = Result("get_ref", key, "ok", NoVal, 0, <<>>)
    /\ UNCHANGED <<heap, table, gs, wr, disk, made, dropped, edits>>

\* drop(entry)
DropEntry(T, id) ==
    LET key == <<T, id>>
        c == CacheEntry_drop([heap |-> heap, dropped |-> dropped], table[key])
    IN  /\ table[key] # NoEntry
        /\ Unborrowed(key)
        /\ heap' = c.heap
        /\ dropped' = c.dropped
        /\ table' = [table EXCEPT ![key] = NoEntry]
        /\ res' = Result("drop_entry", key, "ok", heap[table[key].data].val, 0, <<>>)
        /\ UNCHANGED <<hs, gs, wr, disk, made, edits>>

\* entry.into_inner::<T>()
IntoInner(T, id) ==
    LET key == <<T, id>> IN
    /\ table[key] # NoEntry
    /\ Unborrowed(key)
    /\ heap' = [heap EXCEPT ![table[key].data] = FreeCell]
    /\ table' = [table EXCEPT ![key] = NoEntry]
    /\ res' = Result("into_inner", key, "ok", into_inner(heap, table[key]), 0, <<>>)
    /\ UNCHANGED <<hs, gs, wr, disk, made, dropped, edits>>

-----------------------------------------------------------------------------
(* The file system changes under the source *)

DiskEdit(p, node) ==
    /\ edits < MaxEdits
    /\ p \in Editable
    /\ disk[p] # node
    /\ disk' = [disk EXCEPT ![p] = node]
    /\ edits' = edits + 1
    /\ res' = Result("edit", NoKey, "ok", NoVal, 0, <<>>)
    /\ UNCHANGED <<heap, table, hs, gs, wr, made, dropped>>

-----------------------------------------------------------------------------

\* the workers that reload assets of the cache
Reloaders == {"w1"}

\* the ids the user asks the cache for (the directory load reaches the others)
OpIds == {<<"t", Dot, "a">>}

\* the cache and its user, a reload worker and the file system
Next ==
    \/ \E T \in Types, id \in OpIds : Load(T, id) /\ UNCHANGED reloader
    \/ \E T \in Types, id \in OpIds : LoadCached(T, id) /\ UNCHANGED reloader
    \/ \E T \in Types, id \in OpIds : ContainsKey(T, id) /\ UNCHANGED reloader
    \/ \E T \in Types : LoadDir(T) /\ UNCHANGED reloader
    \/ \E T \in Types, id \in OpIds, n \in GivenNums : Insert(T, id, n) /\ UNCHANGED reloader
    \/ \E T \in Types, id \in OpIds : Remove(T, id) /\ UNCHANGED reloader
    \/ \E T \in Types, id \in OpIds : Take(T, id) /\ UNCHANGED reloader
    \/ DropCache /\ UNCHANGED reloader
    \/ \E w \in Reloaders, T \in Types, id \in OpIds : Reload(w, T, id) /\ UNCHANGED reloader
    \/ \E w \in Reloaders : WriteLock(w) /\ UNCHANGED reloader
    \/ \E w \in Reloaders : WriteStore(w) /\ UNCHANGED reloader
    \/ \E w \in Reloaders : WriteUnlock(w) /\ UNCHANGED reloader
    \/ CloneHandle /\ UNCHANGED reloader
    \/ \E p \in Editable, node \in EditNodes : DiskEdit(p, node) /\ UNCHANGED reloader

Spec == Init /\ [][Next]_vars

\* the entries used directly, as the tests of the entry do: entries are
\* made, borrowed, read, written by several threads, consumed and dropped
NextEntry ==
    \/ \E T \in Types, id \in OpIds, n \in GivenNums : NewEntry(T, id, n) /\ UNCHANGED reloader
    \/ \E T \in Types, id \in OpIds : GetRef(T, id) /\ UNCHANGED reloader
    \/ CloneHandle /\ UNCHANGED reloader
    \/ \E w \in Workers, T \in Types, id \in OpIds, n \in WriteNums : Write(w, T, id, n) /\ UNCHANGED reloader
    \/ \E w \in Workers : WriteLock(w) /\ UNCHANGED reloader
    \/ \E w \in Workers : WriteStore(w) /\ UNCHANGED reloader
    \/ \E w \in Workers : WriteUnlock(w) /\ UNCHANGED reloader
    \/ \E hv \in HandleVars : ReadLock(hv) /\ UNCHANGED reloader
    \/ \E hv \in HandleVars : ReadUnlock(hv) /\ UNCHANGED reloader
    \/ \E T \in Types, id \in OpIds : DropEntry(T, id) /\ UNCHANGED reloader
    \/ \E T \in Types, id \in OpIds : IntoInner(T, id) /\ UNCHANGED reloader
    \/ DropCache /\ UNCHANGED reloader

SpecEntry == Init /\ [][NextEntry]_vars

-----------------------------------------------------------------------------
(* Loads and reloads over a source whose reads fail *)

\* a file whose bytes the loader rejects, as the file of "test.a" in the
\* tests
BadFile == File(<<"n">>)

\* what a.x and a.y hold at the start: nothing, a number, bytes that are no
\* number, or a file that cannot be read
LoadNodes == {NoFile, File(<<"1">>), BadFile, Denied}

LoadDisks ==
    {[p \in FilePlaces |->
        IF p = <<<<"r">>, <<"t">>, <<"a", Dot, "x">>>> THEN nx
        ELSE IF p = <<<<"r">>, <<"t">>, <<"a", Dot, "y">>>> THEN ny
        ELSE NoFile] : nx \in LoadNodes, ny \in LoadNodes}

InitLoad ==
    /\ heap = [a \in Addrs |-> FreeCell]
    /\ table = [k \in Keys |-> NoEntry]
    /\ hs = [hv \in HandleVars |-> NoHandle]
    /\ gs = [hv \in HandleVars |-> 0]
    /\ wr = [w \in Workers |-> IdleWorker]
    /\ disk \in LoadDisks
    /\ made = 0
    /\ dropped = [i \in Insts |-> 0]
    /\ edits = 0
    /\ reloader = NoReloader
    /\ res = [op |-> "new", key |-> NoKey, st |-> "ok", v |-> NoVal,
              reads |-> 0, dir |-> <<>>, prev |-> "-"]

\* what the two files are changed to while the cache runs
LoadEditNodes == {NoFile, File(<<"2">>), BadFile, Denied}

\* the handle the user reads through
LoadReaders == {"h"}

\* the cache and its user, a reload worker and the file system, over every
\* start of the two files
NextLoad ==
    \/ \E T \in Types, id \in OpIds : Load(T, id) /\ UNCHANGED reloader
    \/ \E T \in Types, id \in OpIds : LoadCached(T, id) /\ UNCHANGED reloader
    \/ \E w \in Reloaders, T \in Types, id \in OpIds : Reload(w, T, id) /\ UNCHANGED reloader
    \/ \E w \in Reloaders : WriteLock(w) /\ UNCHANGED reloader
    \/ \E w \in Reloaders : WriteStore(w) /\ UNCHANGED reloader
    \/ \E w \in Reloaders : WriteUnlock(w) /\ UNCHANGED reloader
    \/ \E hv \in LoadReaders : ReadLock(hv) /\ UNCHANGED reloader
    \/ \E hv \in LoadReaders : ReadUnlock(hv) /\ UNCHANGED reloader
    \/ \E p \in Editable, node \in LoadEditNodes : DiskEdit(p, node) /\ UNCHANGED reloader

SpecLoad == InitLoad /\ [][NextLoad]_vars

-----------------------------------------------------------------------------
(* Directory loads over a directory whose children fail to load *)

\* the file of "test.b" in the tests
MinusSeven == File(<<"-", "7">>)

\* the directories at the start: a.x holds nothing, a number, bytes that are
\* no number or cannot be read; a.y holds nothing or a number; b.x holds
\* nothing, a number or bytes that are no number
DirDisks ==
    {[p \in FilePlaces |->
        IF p[3] = <<"a", Dot, "x">> THEN nax
        ELSE IF p[3] = <<"a", Dot, "y">> THEN nay
        ELSE IF p[3] = <<"b", Dot, "x">> THEN nbx
        ELSE NoFile]
     : nax \in LoadNodes, nay \in {NoFile, File(<<"1">>)},
       nbx \in {NoFile, MinusSeven, BadFile}}

InitDir ==
    /\ heap = [a \in Addrs |-> FreeCell]
    /\ table = [k \in Keys |-> NoEntry]
    /\ hs = [hv \in HandleVars |-> NoHandle]
    /\ gs = [hv \in HandleVars |-> 0]
    /\ wr = [w \in Workers |-> IdleWorker]
    /\ disk \in DirDisks
    /\ made = 0
    /\ dropped = [i \in Insts |-> 0]
    /\ edits = 0
    /\ reloader = NoReloader
    /\ res = [op |-> "new", key |-> NoKey, st |-> "ok", v |-> NoVal,
              reads |-> 0, dir |-> <<>>, prev |-> "-"]

\* DirHandle::iter_all: every child with the result of its load
DirHandle_iter_all(dir) == dir

\* DirHandle::iter: the children whose load succeeded
DirHandle_iter(dir) ==
    LET Loaded(r) == r.st = "ok" IN
    LET ok == SelectSeq(dir, Loaded) IN [i \in 1..Len(ok) |-> ok[i].id]

\* the cache and its user: loads of one asset and of the directory
NextDir ==
    \/ \E T \in Types, id \in OpIds : Load(T, id) /\ UNCHANGED reloader
    \/ \E T \in Types, id \in OpIds : LoadCached(T, id) /\ UNCHANGED reloader
    \/ \E T \in Types : LoadDir(T) /\ UNCHANGED reloader

SpecDir == InitDir /\ [][NextDir]_vars

-----------------------------------------------------------------------------
(* The sources called directly *)

\* the ids the file system source is called with: ids of the grammar (of a
\* directory, of files, of a file that does not exist, of three segments,
\* with digits, "_" and "-"), the empty id, ids with an empty segment
\* ("t.", ".t", "t..a", ".."), and ids with a path separator ("/", "/l",
\* "t/a", "../l")
SourceIds ==
    { <<"t">>, <<"t", Dot, "a">>, <<"t", Dot, "b">>, <<"t", Dot, "c">>,
      <<"r", Dot, "t", Dot, "a">>, <<"t", "_", "1", Dot, "a", "-", "b">>,
      <<>>, <<"t", Dot>>, <<Dot, "t">>, <<"t", Dot, Dot, "a">>, <<Dot, Dot>>,
      <<Slash>>, <<Slash, "l">>, <<"t", Slash, "a">>, <<Dot, Dot, Slash, "l">> }

\* the extensions a file is read with; the empty one names a directory
SourceExts == {<<>>, <<"x">>, <<"y">>, <<"g", "z">>}

\* the extension sets a directory is listed with
SourceExtSets == {<< <<"x">> >>, << <<"y">> >>, << <<"x">>, <<"y">> >>, << <<"y">>, <<"x">> >>}

\* the paths a file system source is made of: the root, the root by a
\* relative path and by a path with "..", a missing path, a file of the
\* directory, a directory that cannot be read
NewPaths ==
    { <<Slash, "r">>, <<"r">>, <<Slash, "r", Slash, "t", Slash, Dot, Dot>>,
      <<Slash, "q">>, <<Slash, "r", Slash, "t", Slash, "a", Dot, "x">>,
      <<Slash, "r", Slash, "t", Slash, "b", Dot, "x">>, <<Slash, "l">> }

\* the tables of the embedded sources: the directory "t" of the tests with a
\* second file of the stem "a" and an empty directory "e"; tables in which a
\* key comes twice; empty tables
NoRaw == [files |-> <<>>, dirs |-> <<>>]
RawEmbeddeds ==
    { [files |-> << << <<<<"t", Dot, "a">>, <<"x">>>>, <<"1">> >>,
                    << <<<<"t", Dot, "a">>, <<"y">>>>, <<"2">> >>,
                    << <<<<"t", Dot, "b">>, <<"x">>>>, <<"-", "7">> >> >>,
       dirs |-> << << <<"t">>, << <<<<"a">>, <<"x">>>>, <<<<"a">>, <<"y">>>>,
                                  <<<<"b">>, <<"x">>>> >> >>,
                   << <<"e">>, <<>> >> >>],
      [files |-> << << <<<<"t", Dot, "a">>, <<"x">>>>, <<"1">> >>,
                    << <<<<"t", Dot, "a">>, <<"x">>>>, <<"2">> >> >>,
       dirs |-> << << <<"t">>, << <<<<"a">>, <<"x">>>> >> >>,
                   << <<"t">>, << <<<<"b">>, <<"y">>>> >> >> >>],
      NoRaw }

\* the ids the embedded sources are called with
EmbeddedIds == {<<"t">>, <<"t", Dot, "a">>, <<"t", Dot, "b">>, <<"e">>, <<"q">>}

\* the file systems under the file system source
SourceDisks ==
    {[p \in FilePlaces |->
        IF p[3] = <<"a", Dot, "x">> THEN nax
        ELSE IF p[3] = <<"a", Dot, "y">> THEN nay
        ELSE IF p[3] = <<"b", Dot, "x">> THEN nbx
        ELSE NoFile]
     : nax \in {NoFile, File(<<"1">>)}, nay \in {NoFile, File(<<"2">>)},
       nbx \in {NoFile, Denied}}

\* the record of a call of a source: the tables of the embedded source, the
\* arguments, the path the file system source made of them, what was returned
Call(op, raw, id, ext, path, out) ==
    [op |-> op, raw |-> raw, id |-> id, ext |-> ext, path |-> path, out |-> out]

InitSource ==
    /\ heap = [a \in Addrs |-> FreeCell]
    /\ table = [k \in Keys |-> NoEntry]
    /\ hs = [hv \in HandleVars |-> NoHandle]
    /\ gs = [hv \in HandleVars |-> 0]
    /\ wr = [w \in Workers |-> IdleWorker]
    /\ disk \in SourceDisks
    /\ made = 0
    /\ dropped = [i \in Insts |-> 0]
    /\ edits = 0
    /\ reloader = NoReloader
    /\ res = Call("start", NoRaw, <<>>, <<>>, <<>>, IoOk(<<>>))

\* a call of a source changes nothing but what it returns
CacheUntouched == UNCHANGED <<heap, table, hs, gs, wr, disk, made, dropped, edits>>

\* FileSystem::new(path) and FileSystem::without_hot_reloading(path)
CallNew(path, hot) ==
    /\ \E o \in FileSystem_new(path, hot) :
          res' = Call(IF hot THEN "new" ELSE "without_hot_reloading",
                      NoRaw, <<>>, <<>>, path, o)
    /\ CacheUntouched

\* FileSystem::path_of(id, ext)
CallPathOf(id, ext) ==
    /\ res' = Call("path_of", NoRaw, id, ext, path_of(id, ext), IoOk(<<>>))
    /\ CacheUntouched

\* FileSystem::read(id, ext)
CallRead(id, ext) ==
    /\ res' = Call("read", NoRaw, id, ext, path_of(id, ext), read(id, ext))
    /\ CacheUntouched

\* FileSystem::read_dir(id, ext)
CallReadDir(id, ext) ==
    /\ res' = Call("read_dir", NoRaw, id, ext, path_of(id, <<>>), read_dir(id, ext))
    /\ CacheUntouched

\* Embedded::from(raw).read(id, ext)
CallEmbeddedRead(raw, id, ext) ==
    /\ res' = Call("embedded_read", raw, id, ext, <<>>,
                   Embedded_read(Embedded_from(raw), id, ext))
    /\ CacheUntouched

\* Embedded::from(raw).read_dir(id, ext)
CallEmbeddedReadDir(raw, id, ext) ==
    /\ res' = Call("embedded_read_dir", raw, id, ext, <<>>,
                   Embedded_read_dir(Embedded_from(raw), id, ext))
    /\ CacheUntouched

\* the sources and their callers
NextSource ==
    \/ \E path \in NewPaths, hot \in BOOLEAN : CallNew(path, hot) /\ UNCHANGED reloader
    \/ \E id \in SourceIds, ext \in SourceExts : CallPathOf(id, ext) /\ UNCHANGED reloader
    \/ \E id \in SourceIds, ext \in SourceExts : CallRead(id, ext) /\ UNCHANGED reloader
    \/ \E id \in SourceIds, ext \in SourceExtSets : CallReadDir(id, ext) /\ UNCHANGED reloader
    \/ \E raw \in RawEmbeddeds, id \in EmbeddedIds, ext \in SourceExts :
          CallEmbeddedRead(raw, id, ext) /\ UNCHANGED reloader
    \/ \E raw \in RawEmbeddeds, id \in EmbeddedIds, ext \in SourceExtSets :
          CallEmbeddedReadDir(raw, id, ext) /\ UNCHANGED reloader

SpecSource == InitSource /\ [][NextSource]_vars

-----------------------------------------------------------------------------
(* Hot-reloading: the hooks of the source (src/src/source/filesystem.rs),
   the hot-reloader they send to, and compounds *)

\* UpdateMessage: what the hooks send to the hot-reloader
AddAsset(path, key) ==
    [msg |-> "AddAsset", path |-> path, key |-> key, exts |-> <<>>, deps |-> {}]
AddDir(path, key, exts) ==
    [msg |-> "AddDir", path |-> path, key |-> key, exts |-> exts, deps |-> {}]
AddCompound(key, deps) ==
    [msg |-> "AddCompound", path |-> <<>>, key |-> key, exts |-> <<>>, deps |-> deps]
Clear == [msg |-> "Clear", path |-> <<>>, key |-> NoKey, exts |-> <<>>, deps |-> {}]

\* the hot-reloader a source starts with: its channel and its tables empty
StartedReloader == [NoReloader EXCEPT !.started = TRUE]

\* the AddAsset messages of the extensions of a type, in their order
AddAssetMessages(T, id) ==
    [i \in 1..Len(EXTENSIONS(T)) |-> AddAsset(path_of(id, EXTENSIONS(T)[i]), <<T, id>>)]

\* a faulty hook, which sends although the source has no hot-reloader
FileSystem_add_asset_always(self, T, id) ==
    [self EXCEPT !.queue = @ \o AddAssetMessages(T, id)]

\* FileSystem::_add_asset::<A>(id): with a hot-reloader, one AddAsset per
\* extension of A is sent; without one nothing happens
FileSystem_add_asset(self, T, id) ==
    IF self.started THEN [self EXCEPT !.queue = @ \o AddAssetMessages(T, id)]
    ELSE self

\* FileSystem::_add_dir::<A>(id)
FileSystem_add_dir(self, T, id) ==
    IF self.started
    THEN [self EXCEPT !.queue = Append(@, AddDir(path_of(id, <<>>), <<T, id>>, EXTENSIONS(T)))]
    ELSE self

\* FileSystem::_clear
FileSystem_clear(self) ==
    IF self.started THEN [self EXCEPT !.queue = Append(@, Clear)] ELSE self

\* FileSystem::_add_compound::<A>(id, deps)
FileSystem_add_compound(self, T, id, deps) ==
    IF self.started
    THEN [self EXCEPT !.queue = Append(@, AddCompound(<<T, id>>, deps))]
    ELSE self

\* FileSystem::_support_hot_reloading
FileSystem_support_hot_reloading(self) == self.started

-----------------------------------------------------------------------------
(* The cache over a source with a hot-reloader *)

\* the compound of the cache: Z(id) is built of the assets X("t.a") and
\* Y(id), and its number is the sum of theirs
CompoundTypes == {"Z"}
CompoundIds == {<<"t", Dot, "b">>}
HotAssetKeys == {<<"X", <<"t", Dot, "a">>>>, <<"Y", <<"t", Dot, "b">>>>}
HotKeys == HotAssetKeys \cup (CompoundTypes \X CompoundIds)

\* the values the user's loads may make (a compound and the two assets it
\* is built of), and the room left for those of the reloads and rebuilds, of
\* which a change of a file causes three at most
MaxHotInst == 3
HotInstCap == MaxHotInst + 3 * MaxEdits
HotInsts == 1..HotInstCap

\* one address for each entry there may be
HotAddrs == 1..Cardinality(HotKeys)

\* the address the allocator gives: the lowest that is free
HotAlloc(h) == {a \in HotAddrs : ~h[a].live /\ \A b \in 1..(a - 1) : h[b].live}

\* the cache as the operations below pass it on
HotCache == [heap |-> heap, table |-> table, made |-> made, reloader |-> reloader]

\* the outcomes of load<T>(id) on the cache c: as LoadOutcomes, and a new
\* entry is made known to the source (Source::_add_asset); cap bounds the
\* values made
HotLoadOutcomes(T, id, c, cap) ==
    LET key == <<T, id>> IN
    IF c.table[key] # NoEntry
    THEN {[c |-> c, st |-> "ok", h |-> CacheEntry_get_ref(c.table[key], T)]}
    ELSE UNION {IF l.st # "ok" THEN {[c |-> c, st |-> l.st, h |-> NoHandle]}
                ELSE IF c.made >= cap THEN {}
                ELSE {LET v == Val(c.made + 1, l.asset)
                          e == CacheEntry_new(a, v)
                      IN  [c |-> [heap |-> BoxNew(c.heap, a, v),
                                  table |-> [c.table EXCEPT ![key] = e],
                                  made |-> c.made + 1,
                                  reloader |-> FileSystem_add_asset(c.reloader, T, id)],
                           st |-> "ok", h |-> CacheEntry_get_ref(e, T)]
                      : a \in HotAlloc(c.heap)}
                : l \in {load_from_source(T, id)}}

\* the value a handle of the cache c points at
HotValue(c, h) == c.heap[h.data].val

\* Z::build(cache, id): the two assets are loaded in turn, the first failure
\* ends the build; every load is recorded as a dependency
Compound_build(id, c, cap) ==
    UNION {IF o1.st # "ok" THEN {[c |-> o1.c, st |-> o1.st, n |-> 0, deps |-> {}]}
           ELSE {IF o2.st # "ok" THEN [c |-> o2.c, st |-> o2.st, n |-> 0, deps |-> {}]
                 ELSE [c |-> o2.c, st |-> "ok",
                       n |-> HotValue(o2.c, o1.h).n + HotValue(o2.c, o2.h).n,
                       deps |-> {<<"X", <<"t", Dot, "a">>>>, <<"Y", id>>}]
                 : o2 \in HotLoadOutcomes("Y", id, o1.c, cap)}
           : o1 \in HotLoadOutcomes("X", <<"t", Dot, "a">>, c, cap)}

\* load<T>(id) of an asset
HotLoad(T, id) ==
    \E o \in HotLoadOutcomes(T, id, HotCache, MaxHotInst) :
        /\ heap' = o.c.heap
        /\ table' = o.c.table
        /\ made' = o.c.made
        /\ reloader' = o.c.reloader
        /\ hs' = IF o.st = "ok" THEN [hs EXCEPT !.h = o.h] ELSE hs
        /\ res' = Result("load", <<T, id>>, o.st, NoVal, 0, <<>>)
        /\ UNCHANGED <<gs, wr, disk, dropped, edits>>

\* load<Z>(id) of a compound: a handle on its entry when there is one; else
\* it is built and, when the build succeeds, it gets an entry and is made
\* known to the source with its dependencies (Source::_add_compound); the
\* assets a failed build has loaded stay in the cache
HotLoadCompound(T, id) ==
    LET key == <<T, id>> IN
    IF table[key] # NoEntry
    THEN /\ hs' = [hs EXCEPT !.h = CacheEntry_get_ref(table[key], T)]
         /\ res' = Result("load", key, "ok", NoVal, 0, <<>>)
         /\ UNCHANGED <<heap, table, gs, wr, disk, made, dropped, edits, reloader>>
    ELSE \E b \in Compound_build(id, HotCache, MaxHotInst) :
            IF b.st # "ok"
            THEN /\ heap' = b.c.heap
                 /\ table' = b.c.table
                 /\ made' = b.c.made
                 /\ reloader' = b.c.reloader
                 /\ res' = Result("load", key, b.st, NoVal, 0, <<>>)
                 /\ UNCHANGED <<hs, gs, wr, disk, dropped, edits>>
            ELSE /\ b.c.made < MaxHotInst
                 /\ \E a \in HotAlloc(b.c.heap) :
                       LET v == Val(b.c.made + 1, [ty |-> T, n |-> b.n])
                           e == CacheEntry_new(a, v)
                       IN  /\ heap' = BoxNew(b.c.heap, a, v)
                           /\ table' = [b.c.table EXCEPT ![key] = e]
                           /\ hs' = [hs EXCEPT !.h = CacheEntry_get_ref(e, T)]
                 /\ made' = b.c.made + 1
                 /\ reloader' = FileSystem_add_compound(b.c.reloader, T, id, b.deps)
                 /\ res' = Result("load", key, "ok", NoVal, 0, <<>>)
                 /\ UNCHANGED <<gs, wr, disk, dropped, edits>>

\* CacheEntry::write on the entry of a key, from the call to its return: the
\* new value takes the place of the old one in the box, whose destructor
\* runs. c = [heap, table, dropped]
Overwrite(c, key, v) ==
    [heap |-> WriteAssign(c.heap, c.table[key].data, v),
     table |-> [c.table EXCEPT ![key].written = v.id],
     dropped |-> drop_data(c.dropped, c.heap[c.table[key].data].val)]

\* the drop of every entry of a set of the cache c = [heap, dropped, table]
RECURSIVE HotDropAll(_, _)
HotDropAll(c, ks) ==
    IF ks = {} THEN c
    ELSE LET k == CHOOSE x \in ks : TRUE
             d == CacheEntry_drop([heap |-> c.heap, dropped |-> c.dropped], c.table[k])
         IN  HotDropAll([heap |-> d.heap, dropped |-> d.dropped, table |-> c.table],
                        ks \ {k})

\* clear(): every entry leaves the table and is dropped, and the source is
\* told (Source::_clear); the handles of the user end with the borrow of the
\* cache
HotClear ==
    LET c == HotDropAll([heap |-> heap, dropped |-> dropped, table |-> table],
                        {k \in HotKeys : table[k] # NoEntry})
    IN  /\ \E k \in HotKeys : table[k] # NoEntry
        /\ heap' = c.heap
        /\ dropped' = c.dropped
        /\ table' = [k \in HotKeys |-> NoEntry]
        /\ hs' = [hv \in HandleVars |-> NoHandle]
        /\ reloader' = FileSystem_clear(reloader)
        /\ res' = Result("clear", NoKey, "ok", NoVal, 0, <<>>)
        /\ UNCHANGED <<gs, wr, disk, made, edits>>

-----------------------------------------------------------------------------
(* The hot-reloader: the watcher, the registrations and the reload worker *)

\* the places whose file changes under the hot-reloader, and what to
HotEditable == {p \in FilePlaces : p[3] # <<"a", Dot, "y">>}
HotEditNodes == {File(<<"2">>), BadFile}

\* a file changes, and the watcher of a hot-reloader sees the path of it
HotEdit(p, node) ==
    /\ edits < MaxEdits
    /\ disk[p] # node
    /\ disk' = [disk EXCEPT ![p] = node]
    /\ edits' = edits + 1
    /\ reloader' = IF reloader.started
                   THEN [reloader EXCEPT !.events = @ \cup {JoinPath(p)}]
                   ELSE reloader
    /\ res' = Result("edit", NoKey, "ok", NoVal, 0, <<>>)
    /\ UNCHANGED <<heap, table, hs, gs, wr, made, dropped>>

\* the registration a message asks for
Register(r, m) ==
    CASE m.msg = "AddAsset" ->
            [r EXCEPT !.assets = @ \cup {[path |-> m.path, key |-> m.key]}]
      [] m.msg = "AddDir" ->
            [r EXCEPT !.dirs = @ \cup {[path |-> m.path, key |-> m.key, exts |-> m.exts]}]
      [] m.msg = "AddCompound" ->
            [r EXCEPT !.compounds = {c \in @ : c.key # m.key}
                                    \cup {[key |-> m.key, deps |-> m.deps]}]
      [] OTHER -> [r EXCEPT !.assets = {}, !.dirs = {}, !.compounds = {}]

\* the hot-reloader takes the next message of its channel
Receive ==
    /\ reloader.started
    /\ reloader.queue # <<>>
    /\ reloader' = Register([reloader EXCEPT !.queue = Tail(@)], Head(reloader.queue))
    /\ res' = Result("receive", NoKey, "ok", NoVal, 0, <<>>)
    /\ UNCHANGED <<heap, table, hs, gs, wr, disk, made, dropped, edits>>

\* the (id, ext) of a changed path: the root is stripped, the extension is
\* what follows the last dot, and the separators of the rest become dots;
\* a path outside the root has none
ComputeIdOfPath(path) ==
    LET n == Len(Root) + 1
        rel == SubSeq(path, n + 1, Len(path))
        i == RFind(rel, Dot)
        stem == IF i = 0 THEN rel ELSE SubSeq(rel, 1, i - 1)
    IN  IF Len(path) > n /\ SubSeq(path, 1, n) = Root \o <<Slash>>
        THEN Some(<<[k \in 1..Len(stem) |-> IF stem[k] = Slash THEN Dot ELSE stem[k]],
                    IF i = 0 THEN <<>> ELSE SubSeq(rel, i + 1, Len(rel))>>)
        ELSE None

IdOfPathTable == [p \in KnownPaths |-> ComputeIdOfPath(p)]
IdOfPath(path) ==
    IF path \in KnownPaths THEN IdOfPathTable[path] ELSE ComputeIdOfPath(path)

\* the sequences that hold each element of a set once
RECURSIVE Orders(_)
Orders(S) ==
    IF S = {} THEN {<<>>}
    ELSE UNION {{<<x>> \o s : s \in Orders(S \ {x})} : x \in S}

\* the assets registered for a changed file
ChangedAssets(r, paths) ==
    {a.key : a \in {x \in r.assets :
                      \E p \in paths : IdOfPath(p).some /\ IdOfPath(p) = IdOfPath(x.path)}}

\* the compounds that depend on one of the assets
Dependents(r, keys) == {c.key : c \in {x \in r.compounds : x.deps \cap keys # {}}}

Task(kind, key) == [kind |-> kind, key |-> key]

\* a faulty batch, which rebuilds the compounds before it reloads the assets
BatchTasks_compounds_first(assets, compounds) ==
    {[i \in 1..Len(c) |-> Task("compound", c[i])] \o
     [i \in 1..Len(a) |-> Task("asset", a[i])]
     : a \in Orders(assets), c \in Orders(compounds)}

\* the tasks of a batch: the reloads of the assets, then the rebuilds of the
\* compounds that depend on them
BatchTasks(assets, compounds) ==
    {[i \in 1..Len(a) |-> Task("asset", a[i])] \o
     [i \in 1..Len(c) |-> Task("compound", c[i])]
     : a \in Orders(assets), c \in Orders(compounds)}

\* the reload worker takes the events the watcher has gathered and makes the
\* tasks of them; done keeps the tasks of the batch that have run
Batch ==
    LET assets == ChangedAssets(reloader, reloader.events) IN
    /\ reloader.started
    /\ reloader.tasks = <<>>
    /\ reloader.events # {}
    /\ \E t \in BatchTasks(assets, Dependents(reloader, assets)) :
          reloader' = [reloader EXCEPT !.events = {}, !.tasks = t, !.done = <<>>]
    /\ res' = Result("batch", NoKey, "ok", NoVal, 0, <<>>)
    /\ UNCHANGED <<heap, table, hs, gs, wr, disk, made, dropped, edits>>

\* the end of a task on the entry of a key, in the cache b with the
\* destructor counts d: a value that was made is written over the entry
\* (CacheEntry::write); a failure is logged and nothing is written
Finish(b, d, key, st, asset) ==
    IF st # "ok"
    THEN [heap |-> b.heap, table |-> b.table, made |-> b.made, dropped |-> d,
          reloader |-> b.reloader, st |-> st, v |-> NoVal]
    ELSE LET v == Val(b.made + 1, asset)
             o == Overwrite([heap |-> b.heap, table |-> b.table, dropped |-> d], key, v)
         IN  [heap |-> o.heap, table |-> o.table, made |-> b.made + 1,
              dropped |-> o.dropped, reloader |-> b.reloader, st |-> "ok", v |-> v]

\* the outcomes of a task: a reload loads the asset from the source again,
\* a rebuild builds the compound again; a task whose entry has left the
\* cache does nothing
TaskOutcomes(t, c, d) ==
    IF c.table[t.key] = NoEntry THEN {Finish(c, d, t.key, "absent", NoAsset)}
    ELSE IF t.kind = "asset"
    THEN {Finish(c, d, t.key, l.st, l.asset) : l \in {load_from_source(t.key[1], t.key[2])}}
    ELSE {Finish(b.c, d, t.key, b.st, [ty |-> t.key[1], n |-> b.n])
          : b \in Compound_build(t.key[2], c, HotInstCap)}

\* the worker runs the next task
RunTask ==
    /\ reloader.started
    /\ reloader.tasks # <<>>
    /\ \E t \in {Head(reloader.tasks)} :
       \E r \in {[reloader EXCEPT !.tasks = Tail(@), !.done = Append(@, t)]} :
       \E o \in TaskOutcomes(t, [heap |-> heap, table |-> table, made |-> made,
                                 reloader |-> r], dropped) :
          /\ heap' = o.heap
          /\ table' = o.table
          /\ made' = o.made
          /\ dropped' = o.dropped
          /\ reloader' = o.reloader
          /\ res' = Result(IF t.kind = "asset" THEN "reload" ELSE "rebuild",
                           t.key, o.st, o.v, 0, <<>>)
    /\ UNCHANGED <<hs, gs, wr, disk, edits>>

-----------------------------------------------------------------------------
(* The cache, its user, the file system and the hot-reloader *)

\* the files at the start: a.x and b.x hold a number
HotDisk ==
    [p \in FilePlaces |->
        IF p[3] \in {<<"a", Dot, "x">>, <<"b", Dot, "x">>} THEN File(<<"1">>) ELSE NoFile]

\* the source is made over the root, with hot-reloading or without, and the
\* hot-reloader starts or fails to
InitHot ==
    /\ heap = [a \in HotAddrs |-> FreeCell]
    /\ table = [k \in HotKeys |-> NoEntry]
    /\ hs = [hv \in HandleVars |-> NoHandle]
    /\ gs = [hv \in HandleVars |-> 0]
    /\ wr = [w \in Workers |-> IdleWorker]
    /\ disk = HotDisk
    /\ made = 0
    /\ dropped = [i \in HotInsts |-> 0]
    /\ edits = 0
    /\ \E hot \in BOOLEAN : \E o \in FileSystem_new(Root, hot) :
          /\ o.st = "ok"
          /\ reloader = [IF o.reloader = "started" THEN StartedReloader ELSE NoReloader
                         EXCEPT !.asked = hot]
          /\ res = [op |-> IF hot THEN "new" ELSE "without_hot_reloading",
                    key |-> NoKey, st |-> o.st, v |-> NoVal,
                    reads |-> 0, dir |-> <<>>, prev |-> "-"]

NextHot ==
    \/ \E k \in HotAssetKeys : HotLoad(k[1], k[2])
    \/ \E T \in CompoundTypes, id \in CompoundIds : HotLoadCompound(T, id)

    \/ HotClear
    \/ \E p \in HotEditable, node \in HotEditNodes : HotEdit(p, node)
    \/ Receive
    \/ Batch
    \/ RunTask

SpecHot == InitHot /\ [][NextHot]_vars

\* the hot-reloader is a thread of its own: it goes on taking messages and
\* events and running its tasks as long as there are some
FairSpecHot ==
    SpecHot /\ WF_vars(Receive) /\ WF_vars(Batch) /\ WF_vars(RunTask)

-----------------------------------------------------------------------------
(* The loaders applied to bytes *)

\* format!("{}", n): the decimal text of an i32, the digits of a negative
\* number after a minus sign
RECURSIVE FormatDigits(_)
FormatDigits(n) ==
    LET d == IF n >= 0 THEN n % 10 ELSE (10 - (n % 10)) % 10
        rest == IF n >= 0 THEN n \div 10 ELSE -((n + d) \div 10)
    IN  (IF rest = 0 THEN <<>> ELSE FormatDigits(rest)) \o <<Digits[d + 1]>>
Format(n) == (IF n < 0 THEN <<"-">> ELSE <<>>) \o FormatDigits(n)

\* the numbers whose text is loaded (rand::random::<i32>() in the tests):
\* small ones, and the ends of the range of i32
I32Samples ==
    {0, 1, -1, 7, -7, 10, -10, 42, -42, 109, 214748364, 214748365, 2147483639,
     2147483646, 2147483647, -2147483647, -2147483647 - 1}

\* other bytes: texts that are no number of i32, texts of another form for
\* a number, and bytes that are no text
OtherContents ==
    {<<>>, <<"-">>, <<"+">>, <<"n">>, <<"1", "n">>, <<"n", "1">>, <<" ", "1">>,
     <<"1", Dot, "0">>, <<"-", "-", "1">>, <<"+", "5">>, <<"0", "0", "7">>, <<"-", "0">>,
     <<"2", "1", "4", "7", "4", "8", "3", "6", "4", "8">>,
     <<"-", "2", "1", "4", "7", "4", "8", "3", "6", "4", "9">>,
     <<"9", "9", "9", "9", "9", "9", "9", "9", "9", "9", "9", "n">>,
     <<BadByte>>, <<"1", BadByte>>, <<BadByte, "1">>, <<"n", BadByte>>}

\* an input of a loader: the bytes and, when they are the text format!
\* gives for a number, that number
LoaderInputs ==
    {[n |-> Some(n), content |-> Format(n)] : n \in I32Samples}
    \cup {[n |-> None, content |-> c] : c \in OtherContents}

\* the record of a call of a loader: what it was given, what the inner
\* loader L gives for the same bytes, and what it returned
LoaderCall(op, T, in, ext, inner, out) ==
    [op |-> op, T |-> T, n |-> in.n, content |-> in.content, ext |-> ext,
     inner |-> inner, out |-> out]

InitLoader ==
    /\ heap = [a \in Addrs |-> FreeCell]
    /\ table = [k \in Keys |-> NoEntry]
    /\ hs = [hv \in HandleVars |-> NoHandle]
    /\ gs = [hv \in HandleVars |-> 0]
    /\ wr = [w \in Workers |-> IdleWorker]
    /\ disk = InitDisk
    /\ made = 0
    /\ dropped = [i \in Insts |-> 0]
    /\ edits = 0
    /\ reloader = NoReloader
    /\ res = LoaderCall("start", "-", [n |-> None, content |-> <<>>], <<>>,
                        Err("-"), Err("-"))

\* ParseLoader::load(content, ext), as Loader<i32>
CallParseLoader(in, ext) ==
    /\ res' = LoaderCall("ParseLoader", "i32", in, ext,
                         ParseLoader_load(in.content, ext),
                         ParseLoader_load(in.content, ext))
    /\ CacheUntouched
    /\ UNCHANGED reloader

\* LoadFrom::<i32, ParseLoader>::load(content, ext), as Loader<T>
CallLoadFrom(T, in, ext) ==
    /\ res' = LoaderCall("LoadFrom", T, in, ext,
                         ParseLoader_load(in.content, ext),
                         LoadFrom_load(T, in.content, ext))
    /\ CacheUntouched
    /\ UNCHANGED reloader

\* the extensions the loaders are given
LoaderExts == {<<>>, <<"x">>}

NextLoader ==
    \/ \E in \in LoaderInputs, ext \in LoaderExts : CallParseLoader(in, ext)
    \/ \E T \in Types, in \in LoaderInputs, ext \in LoaderExts : CallLoadFrom(T, in, ext)

SpecLoader == InitLoader /\ [][NextLoader]_vars

-----------------------------------------------------------------------------
(* Overwrites beside lookups and reads: the threads of the reloader
   overwrite entries of the cache while the program looks keys up and reads
   through the handles it holds *)

NextReload ==
    \/ \E T \in Types, id \in OpIds : Load(T, id) /\ UNCHANGED reloader
    \/ \E T \in Types, id \in OpIds : LoadCached(T, id) /\ UNCHANGED reloader
    \/ \E T \in Types, id \in OpIds : ContainsKey(T, id) /\ UNCHANGED reloader
    \/ \E w \in Workers, T \in Types, id \in OpIds, n \in WriteNums : Write(w, T, id, n) /\ UNCHANGED reloader
    \/ \E w \in Workers : WriteLock(w) /\ UNCHANGED reloader
    \/ \E w \in Workers : WriteStore(w) /\ UNCHANGED reloader
    \/ \E w \in Workers : WriteUnlock(w) /\ UNCHANGED reloader
    \/ \E hv \in HandleVars : ReadLock(hv) /\ UNCHANGED reloader
    \/ \E hv \in HandleVars : ReadUnlock(hv) /\ UNCHANGED reloader
    \/ CloneHandle /\ UNCHANGED reloader

SpecReload == Init /\ [][NextReload]_vars

-----------------------------------------------------------------------------
(* Entries that move: an entry is a pair of words (data, drop_concrete), and
   a move of it, from one variable or slot of a table to another, copies the
   two words *)

\* a faulty entry, whose lock is stored in the entry itself: the lock moves
\* with it, to another address when there is one
CacheEntry_move_inline(h, self) ==
    IF FreeAddrs(h) = {} THEN [heap |-> h, entry |-> self]
    ELSE LET a == CHOOSE a \in FreeAddrs(h) : TRUE IN
         [heap |-> [h EXCEPT ![a] = h[self.data], ![self.data] = FreeCell],
          entry |-> [self EXCEPT !.data = a]]

\* the move of a CacheEntry: the pointer to the box is copied, the box is
\* not touched
CacheEntry_move(h, self) == [heap |-> h, entry |-> self]

\* let to = from: the entry named <<T, from>> moves to the place named
\* <<T, to>>; handles and read guards on it may be in use, no thread is
\* inside write on it
MoveEntry(T, from, to) ==
    LET m == CacheEntry_move(heap, table[<<T, from>>]) IN
    /\ table[<<T, from>>] # NoEntry
    /\ table[<<T, to>>] = NoEntry
    /\ \A w \in Workers : wr[w].pc = "idle" \/ wr[w].key # <<T, from>>
    /\ heap' = m.heap
    /\ table' = [table EXCEPT ![<<T, from>>] = NoEntry, ![<<T, to>>] = m.entry]
    /\ res' = Result("move", <<T, to>>, "ok", NoVal, 0, <<>>)
    /\ UNCHANGED <<hs, gs, wr, disk, made, dropped, edits>>

NextMove ==
    \/ \E T \in Types, id \in OpIds, n \in GivenNums : NewEntry(T, id, n) /\ UNCHANGED reloader
    \/ \E T \in Types, from \in Ids, to \in Ids : MoveEntry(T, from, to) /\ UNCHANGED reloader
    \/ \E T \in Types, id \in Ids : GetRef(T, id) /\ UNCHANGED reloader
    \/ CloneHandle /\ UNCHANGED reloader
    \/ \E w \in Reloaders, T \in Types, id \in Ids, n \in WriteNums : Write(w, T, id, n) /\ UNCHANGED reloader
    \/ \E w \in Reloaders : WriteLock(w) /\ UNCHANGED reloader
    \/ \E w \in Reloaders : WriteStore(w) /\ UNCHANGED reloader
    \/ \E w \in Reloaders : WriteUnlock(w) /\ UNCHANGED reloader
    \/ \E hv \in HandleVars : ReadLock(hv) /\ UNCHANGED reloader
    \/ \E hv \in HandleVars : ReadUnlock(hv) /\ UNCHANGED reloader
    \/ \E T \in Types, id \in Ids : DropEntry(T, id) /\ UNCHANGED reloader

SpecMove == Init /\ [][NextMove]_vars

-----------------------------------------------------------------------------
(* The hooks of the file system source, called on sources made with
   hot-reloading and without *)

\* the messages the model lets wait in the channel of the hot-reloader
MaxQueue == 2

\* the dependencies recorded by the builds of compounds
HookDeps == {{<<"X", <<"t", Dot, "a">>>>}}

\* the record of a call on the source: what was called, the path given to a
\* construction, its outcome, and what _support_hot_reloading returned
HookCall(op, path, st, v) == [op |-> op, path |-> path, st |-> st, v |-> v]

\* the reloader field of the source FileSystem::_new returns: Some of a
\* hot-reloader that has started, or None
ReloaderOf(o, hot) ==
    [IF o.reloader = "started" THEN StartedReloader ELSE NoReloader EXCEPT !.asked = hot]

InitHook ==
    /\ heap = [a \in Addrs |-> FreeCell]
    /\ table = [k \in Keys |-> NoEntry]
    /\ hs = [hv \in HandleVars |-> NoHandle]
    /\ gs = [hv \in HandleVars |-> 0]
    /\ wr = [w \in Workers |-> IdleWorker]
    /\ disk = HotDisk
    /\ made = 0
    /\ dropped = [i \in Insts |-> 0]
    /\ edits = 0
    /\ \E hot \in BOOLEAN : \E o \in FileSystem_new(Root, hot) :
          /\ o.st = "ok"
          /\ reloader = ReloaderOf(o, hot)
          /\ res = HookCall(IF hot THEN "new" ELSE "without_hot_reloading", Root, o.st, FALSE)

\* FileSystem::new(path) or FileSystem::without_hot_reloading(path): the
\* source made takes the place of the one in use; an error leaves that one
\* in use
NewSource(path, hot) ==
    /\ \E o \in FileSystem_new(path, hot) :
          /\ reloader' = IF o.st = "ok" THEN ReloaderOf(o, hot) ELSE reloader
          /\ res' = HookCall(IF hot THEN "new" ELSE "without_hot_reloading", path, o.st, FALSE)
    /\ CacheUntouched

\* there is room in the channel for n messages more
Room(n) == ~reloader.started \/ Len(reloader.queue) + n <= MaxQueue

\* source._add_asset::<T>(id)
WatchAsset(T, id) ==
    /\ Room(Len(EXTENSIONS(T)))
    /\ reloader' = FileSystem_add_asset(reloader, T, id)
    /\ res' = HookCall("watch_asset", <<>>, "ok", FALSE)
    /\ CacheUntouched

\* source._add_dir::<T>(id)
WatchDir(T, id) ==
    /\ Room(1)
    /\ reloader' = FileSystem_add_dir(reloader, T, id)
    /\ res' = HookCall("watch_dir", <<>>, "ok", FALSE)
    /\ CacheUntouched

\* source._add_compound::<T>(id, deps)
WatchCompound(T, id, deps) ==
    /\ Room(1)
    /\ reloader' = FileSystem_add_compound(reloader, T, id, deps)
    /\ res' = HookCall("watch_compound", <<>>, "ok", FALSE)
    /\ CacheUntouched

\* source._clear()
ClearWatches ==
    /\ Room(1)
    /\ reloader' = FileSystem_clear(reloader)
    /\ res' = HookCall("clear", <<>>, "ok", FALSE)
    /\ CacheUntouched

\* source._support_hot_reloading()
SupportHotReloading ==
    /\ res' = HookCall("support", <<>>, "ok", FileSystem_support_hot_reloading(reloader))
    /\ UNCHANGED reloader
    /\ CacheUntouched

\* the hot-reloader takes a message out of its channel
TakeMessage ==
    /\ reloader.started
    /\ reloader.queue # <<>>
    /\ reloader' = [reloader EXCEPT !.queue = Tail(@)]
    /\ res' = HookCall("receive", <<>>, "ok", FALSE)
    /\ CacheUntouched

NextHook ==
    \/ \E path \in NewPaths, hot \in BOOLEAN : NewSource(path, hot)
    \/ \E T \in Types, id \in Ids : WatchAsset(T, id)
    \/ \E T \in Types : WatchDir(T, DirId)
    \/ \E T \in CompoundTypes, id \in CompoundIds, deps \in HookDeps : WatchCompound(T, id, deps)
    \/ ClearWatches
    \/ SupportHotReloading
    \/ TakeMessage

SpecHook == InitHook /\ [][NextHook]_vars

-----------------------------------------------------------------------------
(* Writes that wait for readers: the read guards belong to threads, of which
   one also writes *)

\* the thread is not inside a call of write: it can take its next step
Running(t) == IF t \in Workers THEN wr[t].pc = "idle" ELSE TRUE

\* rwlock::write in a thread that holds a read guard on the same lock may
\* panic instead of blocking (RwLock::write "might panic when called if the
\* lock is already held by the current thread"): the thread unwinds, its
\* read guards and the asset it was given are dropped, and it ends
WritePanic(w) ==
    /\ wr[w].pc = "waiting"
    /\ wr[w].lock.data \in Addrs
    /\ OwnGuards(w, wr[w].lock.data) # {}
    /\ heap' = [a \in Addrs |->
                  [heap[a] EXCEPT !.readers = @ - Cardinality(OwnGuards(w, a))]]
    /\ gs' = [hv \in HandleVars |-> IF GuardOwner[hv] = w THEN 0 ELSE gs[hv]]
    /\ dropped' = drop_data(dropped, wr[w].asset)
    /\ wr' = [wr EXCEPT ![w] = [IdleWorker EXCEPT !.pc = "panicked"]]
    /\ res' = Result("write_panic", NoKey, "panic", NoVal, 0, <<>>)
    /\ UNCHANGED <<table, hs, disk, made, edits>>

\* handle.read() and the drop of the guard, by the thread that owns it
ThreadRead(hv) == Running(GuardOwner[hv]) /\ ReadLock(hv)
ThreadUnread(hv) == Running(GuardOwner[hv]) /\ ReadUnlock(hv)

NextWait ==
    \/ \E T \in Types, id \in OpIds, n \in GivenNums : NewEntry(T, id, n) /\ UNCHANGED reloader
    \/ \E T \in Types, id \in OpIds : GetRef(T, id) /\ UNCHANGED reloader
    \/ CloneHandle /\ UNCHANGED reloader
    \/ \E w \in Workers, T \in Types, id \in OpIds, n \in WriteNums : Write(w, T, id, n) /\ UNCHANGED reloader
    \/ \E w \in Workers : WriteLock(w) /\ UNCHANGED reloader
    \/ \E w \in Workers : WriteStore(w) /\ UNCHANGED reloader
    \/ \E w \in Workers : WriteUnlock(w) /\ UNCHANGED reloader
    \/ \E w \in Workers : WritePanic(w) /\ UNCHANGED reloader
    \/ \E hv \in HandleVars : ThreadRead(hv) /\ UNCHANGED reloader
    \/ \E hv \in HandleVars : ThreadUnread(hv) /\ UNCHANGED reloader

SpecWait == Init /\ [][NextWait]_vars

\* a thread inside write goes on: it takes the lock if the lock is free
\* again and again, stores and releases
FairSpecWait ==
    /\ SpecWait
    /\ \A w \in Workers : SF_vars(WriteLock(w) /\ UNCHANGED reloader)
    /\ \A w \in Workers : WF_vars(WriteStore(w) /\ UNCHANGED reloader)
    /\ \A w \in Workers : WF_vars(WriteUnlock(w) /\ UNCHANGED reloader)

-----------------------------------------------------------------------------
(* Properties of the entry and its lock (src/src/lock.rs) *)

\* the handles that exist: those the user keeps and those the threads inside
\* write hold
Handles ==
    {hs[hv] : hv \in HandleVars} \cup {wr[w].lock : w \in Workers}

\* a handle whose entry is alive
Alive(h) == h # NoHandle /\ KeysOf(h) # {}

\* the last step was a read through a handle of the entry named k
ReadOf(k) == res.st = "read" /\ res.key = k /\ table[k] # NoEntry

\* C1: once a write of v on an entry has completed, with no later write,
\* a read through any handle of that entry (one obtained before the write,
\* the one write returned, one obtained afterwards) yields v
C1_ReadAfterWrite ==
    \A k \in Keys :
        (ReadOf(k) /\ table[k].written # 0) => res.v.id = table[k].written

\* C1 witness: a handle obtained before the completed write has just read
\* the entry
C1_Witness ==
    \E k \in Keys :
        /\ ReadOf(k)
        /\ res.op = "old"
        /\ table[k].written # 0
        /\ hs.old.seen # table[k].written

\* C2: two handles are ptr_eq exactly when they refer to the same entry:
\* handles of one entry, obtained by get_ref, by write or by copy, before or
\* after overwrites, are ptr_eq; handles of two distinct alive entries are not
C2_PtrEqIffSameEntry ==
    /\ \A h1 \in Handles, h2 \in Handles :
            (h1 # NoHandle /\ h2 # NoHandle /\ h1.eid = h2.eid) => ptr_eq(h1, h2)
    /\ \A h1 \in Handles, h2 \in Handles :
            (Alive(h1) /\ Alive(h2) /\ h1.eid # h2.eid) => ~ptr_eq(h1, h2)
    /\ \A h \in Handles, k \in Keys :
            (Alive(h) /\ table[k] # NoEntry)
                => (ptr_eq(h, CacheEntry_get_ref(table[k], k[1])) <=> h.eid = table[k].eid)

\* C2 witness: a handle obtained before an overwrite and the handle a later
\* write returned, both of one alive entry, beside another alive entry
C2_Witness ==
    /\ Alive(hs.h) /\ Alive(hs.old)
    /\ hs.h.eid = hs.old.eid
    /\ hs.h.seen # hs.old.seen
    /\ \E k \in Keys : table[k] # NoEntry /\ table[k].eid # hs.h.eid

\* the threads that hold the write guard of the lock at address a
WritersOf(a) ==
    {w \in Workers : wr[w].pc \in {"locked", "stored"} /\ wr[w].lock.data = a}

\* the read guards on the lock at address a
GuardsOf(a) == {hv \in HandleVars : gs[hv] = a}

\* C3: a write is in progress on an entry only if no read guard on that entry
\* exists and no other write on it is in progress
C3_WriteExclusive ==
    \A a \in Addrs :
        WritersOf(a) # {} => (Cardinality(WritersOf(a)) = 1 /\ GuardsOf(a) = {})

\* C3 witness: a thread holds the write guard of an entry while another
\* thread waits for it
C3_Witness ==
    \E a \in Addrs, w \in Workers :
        /\ WritersOf(a) # {}
        /\ wr[w].pc = "waiting" /\ wr[w].lock.data = a

\* several read guards on one entry at the same time
C3_SharedReaders == \E a \in Addrs : Cardinality(GuardsOf(a)) = 2

\* the entries held, and the value each holds
Held == {k \in Keys : table[k] # NoEntry}
ValueOf(k) == heap[table[k].data].val

\* C4: the destructor of the value an entry holds runs exactly once per
\* entry: creating an entry runs no destructor; dropping an entry, alone or
\* with the table that holds it, runs the destructor of its value, which had
\* not run before, once
C4_DestructorOncePerEntry ==
    [][ /\ res'.op = "new_entry" => dropped' = dropped
        /\ res'.op = "drop_entry" =>
              /\ dropped[ValueOf(res'.key).id] = 0
              /\ dropped' = [dropped EXCEPT ![ValueOf(res'.key).id] = 1]
        /\ res'.op = "drop_cache" =>
              /\ \A k \in Held : dropped[ValueOf(k).id] = 0
              /\ dropped' = [i \in Insts |->
                                IF \E k \in Held : ValueOf(k).id = i THEN 1 ELSE dropped[i]]
      ]_vars

\* C4 witness: two entries were created and both have been dropped, the
\* second just now: the destructors of their two values have run once each
C4_Witness ==
    /\ res.op = "drop_entry"
    /\ Held = {}
    /\ made = 2
    /\ hs.h.eid # 0 /\ hs.old.eid # 0 /\ hs.h.eid # hs.old.eid
    /\ dropped[1] = 1 /\ dropped[2] = 1

-----------------------------------------------------------------------------
(* Properties of the cache *)

\* the places of the files of the id "t.a"
PlaceAX == <<<<"r">>, <<"t">>, <<"a", Dot, "x">>>>
PlaceAY == <<<<"r">>, <<"t">>, <<"a", Dot, "y">>>>

\* what the file system holds for the asset of type T with id "t.a": the
\* file of the first extension of T that exists
Stored(T) ==
    IF T = "X" THEN disk[PlaceAX]
    ELSE IF disk[PlaceAY].kind = "file" THEN disk[PlaceAY] ELSE disk[PlaceAX]

\* the number written in a file
NumberIn(bytes) ==
    IF bytes = <<"1">> THEN 1
    ELSE IF bytes = <<"2">> THEN 2
    ELSE IF bytes = <<"-", "7">> THEN -7
    ELSE 0

\* the step is one of the operations that take an entry out of the table
Evicts == res'.op \in {"remove", "take", "drop_cache"}

\* C5: an entry in the table is destroyed or replaced only by remove, take
\* or the drop of the cache: across every other operation (load,
\* load_cached, contains, load_dir, insert, a reload and its overwrite) it
\* stays the same entry at the same address, so every handle of an entry in
\* the table points to a live lock and is ptr_eq to a fresh handle of its key
C5_EntryStable ==
    /\ [](\A h \in Handles :
            Alive(h) =>
                /\ h.data \in Addrs
                /\ heap[h.data].live
                /\ \A k \in KeysOf(h) : ptr_eq(h, CacheEntry_get_ref(table[k], k[1])))
    /\ [][ ~Evicts =>
              \A k \in Held :
                  /\ table'[k] # NoEntry
                  /\ table'[k].eid = table[k].eid
                  /\ table'[k].data = table[k].data
                  /\ heap'[table[k].data].live
        ]_vars

\* C5 witness: a reload has just overwritten the value of an entry of which
\* the user keeps a handle obtained before the reload
C5_Witness ==
    /\ res.op = "write"
    /\ Alive(hs.old)
    /\ \E k \in KeysOf(hs.old) : table[k].written # 0 /\ hs.old.seen # table[k].written

\* the step is a load<T>(id) that finds the entry of (T, id) and returns a
\* handle that reads the value stored in it
LoadsStored ==
    /\ res'.st = "ok"
    /\ res'.reads = 0
    /\ hs'.h.data \in Addrs
    /\ hs'.h.ty = res'.key[1]
    /\ hs'.h.eid = table[res'.key].eid
    /\ heap'[hs'.h.data].val = ValueOf(res'.key)

\* the step is a load<T>(id) that finds no entry of (T, id) and gives what
\* the file system holds for (T, id): a handle on a new entry with a new
\* value of type T of that number, or NotFound when it holds no file; the
\* entries already in the table are left as they are
LoadsFromSource ==
    LET T == res'.key[1] IN
    /\ \A k \in Held : table'[k] = table[k] /\ heap'[table[k].data] = heap[table[k].data]
    /\ res'.st = (IF Stored(T).kind = "file" THEN "ok" ELSE "notfound")
    /\ res'.reads >= 1
    /\ res'.st = "ok" =>
          /\ hs'.h.data \in Addrs
          /\ \A k \in Held : hs'.h.data # table[k].data /\ hs'.h.eid # table[k].eid
          /\ table'[res'.key].eid = hs'.h.eid
          /\ heap'[hs'.h.data].val = [id |-> made + 1, ty |-> T, n |-> NumberIn(Stored(T).bytes)]

\* an entry of the same id is stored for another type than that of key
OtherTypeStored(key) == \E k \in Held : k[2] = key[2] /\ k[1] # key[1]

C7_LoadIdempotent ==
    [][ (res.op = "load" /\ res.st = "ok" /\ res'.op = "load" /\ res'.key = res.key) =>
            /\ res'.st = "ok"
            /\ ptr_eq(hs.h, hs'.h)
            /\ res'.reads = 0
            /\ UNCHANGED <<table, heap, made, dropped>>
      ]_vars

\* C7 witness: the second of two successive loads of one key has returned
C7_Witness ==
    res.op = "load" /\ res.prev = "load" /\ res.st = "ok" /\ Alive(hs.h)

\* the step is a load<T>(id) right after a remove<T>(id) that removed an entry
LoadAfterRemove ==
    res.op = "remove" /\ res.st = "ok" /\ res'.op = "load" /\ res'.key = res.key

\* such a load is a load from the source as it is now, and its entry and
\* value are new: not the value removed, and not an entry of which a handle
\* was obtained before
FreshAfterRemove ==
    /\ LoadsFromSource
    /\ res'.st = "ok" =>
          /\ heap'[hs'.h.data].val.id # res.v.id
          /\ \A hv \in HandleVars : hs[hv].eid # hs'.h.eid

C9_LoadCachedLookup ==
    [][ res'.op = "load_cached" =>
            /\ res.op = "new" => res'.st = "none"
            /\ (res.op = "remove" /\ res.key = res'.key) => res'.st = "none"
            /\ (res.op = "load" /\ res.st = "ok" /\ res.key = res'.key) =>
                    res'.st = "some" /\ hs'.h = hs.h
            /\ UNCHANGED <<table, heap, disk, made, dropped>>
            /\ res'.reads = 0
            /\ IF table[res'.key] = NoEntry
               THEN res'.st = "none" /\ hs' = hs
               ELSE /\ res'.st = "some"
                    /\ hs'.h.data \in Addrs
                    /\ hs'.h.eid = table[res'.key].eid
                    /\ heap[hs'.h.data].val = ValueOf(res'.key)
      ]_vars

\* C9 witness: load_cached has returned a handle of an entry that a load
\* created
C9_Witness ==
    /\ res.op = "load_cached" /\ res.st = "some"
    /\ Alive(hs.h) /\ hs.h.eid = table[res.key].eid
    /\ ValueOf(res.key).n = 1

\* C10: take<T>(id) on a present entry returns the value the entry holds
\* (the one loaded, or the one of the last completed overwrite), whose
\* destructor does not run, and removes the entry, so that a load_cached
\* right after it gives None; on an absent key it returns None and changes
\* nothing
C10_Take ==
    [][ /\ res'.op = "take" =>
              IF table[res'.key] # NoEntry
              THEN /\ res'.st = "some"
                   /\ res'.v = ValueOf(res'.key)
                   /\ table[res'.key].written # 0 => res'.v.id = table[res'.key].written
                   /\ table' = [table EXCEPT ![res'.key] = NoEntry]
                   /\ ~heap'[table[res'.key].data].live
                   /\ dropped' = dropped
              ELSE /\ res'.st = "none"
                   /\ UNCHANGED <<table, heap, hs, disk, made, dropped>>
        /\ (res.op = "take" /\ res'.op = "load_cached" /\ res'.key = res.key)
              => res'.st = "none"
      ]_vars

\* C10 witness: take has returned the value a reload wrote into the entry
C10_Witness ==
    /\ res.op = "take" /\ res.st = "some"
    /\ table[res.key] = NoEntry
    /\ hs.h.ty = res.key[1] /\ hs.h.seen = res.v.id /\ hs.h.eid # res.v.id

\* C11: remove<T>(id) evicts exactly the entry keyed (T, id): that entry
\* leaves the table, its box is freed and the destructor of its value runs
\* once; every other entry stays in the table with its box and value as they
\* were (the entry of the same id for another type included); remove of an
\* absent key changes nothing; a load_cached<T>(id) right after a remove
\* gives None
C11_RemoveExact ==
    /\ [](res.op = "remove" => table[res.key] = NoEntry)
    /\ [][ /\ res'.op = "remove" =>
                 LET key == res'.key IN
                 /\ \A k \in Held \ {key} :
                       /\ table'[k] = table[k]
                       /\ heap'[table[k].data] = heap[table[k].data]
                 /\ hs' = hs /\ disk' = disk /\ made' = made
                 /\ IF table[key] # NoEntry
                    THEN /\ res'.st = "ok"
                         /\ table' = [table EXCEPT ![key] = NoEntry]
                         /\ ~heap'[table[key].data].live
                         /\ dropped' = [dropped EXCEPT ![ValueOf(key).id] = @ + 1]
                    ELSE /\ res'.st = "absent"
                         /\ UNCHANGED <<table, heap, dropped>>
           /\ (res.op = "remove" /\ res'.op = "load_cached" /\ res'.key = res.key)
                 => res'.st = "none"
      ]_vars

\* C11 witness: remove has evicted the entry of a key while the entry of the
\* same id for the other type stays in the table with its live box
C11_Witness ==
    /\ res.op = "remove" /\ res.st = "ok"
    /\ table[res.key] = NoEntry
    /\ \E k \in Held : k[2] = res.key[2] /\ k[1] # res.key[1] /\ heap[table[k].data].live

\* the place of the file of "t.a" with extension ext
PlaceOf(ext) == IF ext = <<"x">> THEN PlaceAX ELSE PlaceAY

\* what the file system holds for "t.a" under each extension of T, in
\* declaration order
Yields(T) == [i \in 1..Len(EXTENSIONS(T)) |-> disk[PlaceOf(EXTENSIONS(T)[i])]]

\* the positions of the extensions of T for which the source returns bytes,
\* and the first of them
WithBytes(T) == {i \in DOMAIN Yields(T) : Yields(T)[i].kind = "file"}
FirstBytes(T) == CHOOSE i \in WithBytes(T) : \A j \in WithBytes(T) : i <= j

\* the bytes are a decimal number
IsNumber(bytes) == bytes \in {<<"1">>, <<"2">>, <<"-", "7">>}

\* the step leaves the cache as it is: no entry is made, no value is built
CacheUnchanged == UNCHANGED <<table, heap, hs, made, dropped>>

C12_FailsNotFound ==
    res.op = "load" /\ res.st = "notfound" /\ res.reads = 2
C12_FailsIo ==
    res.op = "load" /\ res.st = "io" /\ res.reads = 2 /\ disk[PlaceAY].kind = "none"
C12_FailsLoader ==
    res.op = "load" /\ res.st = "loader" /\ res.reads = 2 /\ disk[PlaceAX] = BadFile

\* the source provides loadable bytes for T: the first extension of T that
\* has bytes holds a number
Loadable(T) == WithBytes(T) # {} /\ IsNumber(Yields(T)[FirstBytes(T)].bytes)

\* C13: a failed load<T>(id) is not cached: it makes no entry and changes
\* nothing in the cache, a load_cached<T>(id) right after it gives None, and
\* every load<T>(id) made while (T, id) has no entry reads the source again
\* and succeeds exactly when the source then provides loadable bytes
C13_FailedLoadNotCached ==
    /\ []((res.op = "load" /\ res.st # "ok") => table[res.key] = NoEntry)
    /\ [][ /\ (res'.op = "load" /\ res'.st # "ok") =>
                 table[res'.key] = NoEntry /\ CacheUnchanged
           /\ (res.op = "load" /\ res.st # "ok" /\ res'.op = "load_cached"
                 /\ res'.key = res.key) => res'.st = "none"
           /\ (res'.op = "load" /\ table[res'.key] = NoEntry) =>
                 /\ res'.reads >= 1
                 /\ res'.st = "ok" <=> Loadable(res'.key[1])
      ]_vars

\* C13 witness: a load has failed, the file has then been changed to a
\* number, and the next load of the same key has read the source and
\* returned the entry of that number
C13_Witness ==
    /\ res.op = "load" /\ res.prev = "edit" /\ res.st = "ok" /\ res.reads >= 1
    /\ table[res.key] # NoEntry
    /\ ValueOf(res.key).n = 2

\* the files the directory "t" holds with an extension of T, in the order
\* the operating system lists them
ListedFiles(T) ==
    LET Listed(nm) == /\ Contains(EXTENSIONS(T), <<nm[3]>>)
                      /\ disk[<<<<"r">>, <<"t">>, nm>>].kind # "none"
    IN  SelectSeq(DirOrder, Listed)

\* what the file system holds for the id "t.<leaf>" under each extension of
\* T, in declaration order, and the bytes of the first extension that has some
YieldsAt(T, id) ==
    [i \in 1..Len(EXTENSIONS(T)) |->
        disk[<<<<"r">>, <<"t">>, <<id[3], Dot>> \o EXTENSIONS(T)[i]>>]]
BytesAt(T, id) ==
    LET y == YieldsAt(T, id)
        with == {i \in DOMAIN y : y[i].kind = "file"}
    IN  IF with = {} THEN <<>>
        ELSE y[CHOOSE i \in with : \A j \in with : i <= j].bytes

\* C14: load_dir<T>(id) makes one call to read_dir and gives one result per
\* file the directory holds with an extension of T, in listing order, under
\* the id parent + "." + leaf. The result of a child is Ok exactly when the
\* child is cached or the source holds loadable bytes for it, and then the
\* child has an entry (a new one holds the number of its file); otherwise it
\* is the Err of that child, which gets no entry, and the children after it
\* are loaded all the same. The success-only iterator gives the ids of the
\* children whose result is Ok, each of which has an entry. Entries stored
\* before stay as they are
C14_LoadDirPerChild ==
    [][ (res'.op = "load_dir" /\ res'.st = "ok") =>
            LET T == res'.key[1]
                files == ListedFiles(T)
                all == DirHandle_iter_all(res'.dir)
                oks == DirHandle_iter(res'.dir)
            IN  /\ res'.reads = 1
                /\ Len(all) = Len(files)
                /\ \A k \in Held : table'[k] = table[k]
                                   /\ heap'[table[k].data] = heap[table[k].data]
                /\ \A i \in 1..Len(files) :
                      LET id == DirId \o <<Dot, files[i][1]>>
                          key == <<T, id>>
                      IN  /\ all[i].id = id
                          /\ all[i].st = "ok" <=>
                                (table[key] # NoEntry \/ IsNumber(BytesAt(T, id)))
                          /\ all[i].st = "ok" => table'[key] # NoEntry
                          /\ (all[i].st = "ok" /\ table[key] = NoEntry) =>
                                heap'[table'[key].data].val.n = NumberIn(BytesAt(T, id))
                          /\ all[i].st # "ok" =>
                                /\ table'[key] = NoEntry
                                /\ all[i].st \in {"loader", "io"}
                /\ Len(oks) = Cardinality({i \in 1..Len(all) : all[i].st = "ok"})
                /\ \A j \in 1..Len(oks) :
                      /\ table'[<<T, oks[j]>>] # NoEntry
                      /\ \E i \in 1..Len(all) : all[i].id = oks[j] /\ all[i].st = "ok"
                /\ \A i \in 1..Len(all) :
                      all[i].st = "ok" => \E j \in 1..Len(oks) : oks[j] = all[i].id
      ]_vars

\* C14 witness: load_dir<X> has given the Err of the child "t.a", whose bytes
\* are no number, and after it the Ok of the child "t.b", which holds -7
C14_Witness ==
    /\ res.op = "load_dir" /\ res.st = "ok"
    /\ res.dir = << [id |-> <<"t", Dot, "a">>, st |-> "loader"],
                    [id |-> <<"t", Dot, "b">>, st |-> "ok"] >>
    /\ DirHandle_iter(res.dir) = << <<"t", Dot, "b">> >>
    /\ table[<<"X", <<"t", Dot, "a">>>>] = NoEntry
    /\ ValueOf(<<"X", <<"t", Dot, "b">>>>).n = -7

-----------------------------------------------------------------------------
(* Properties of the sources *)

\* the elements of a list, and a list in which no element comes twice
Range(seq) == {seq[i] : i \in 1..Len(seq)}
NoDuplicate(seq) == \A i, j \in 1..Len(seq) : seq[i] = seq[j] => i = j

\* the names of the files the directory of the path holds whose extension
\* is among ext (the directory "t" of the root is the one that holds files)
MatchingFiles(path, ext) ==
    IF Resolve(path) = <<<<"r">>, <<"t">>>>
    THEN {nm \in Range(DirOrder) :
             /\ disk[<<<<"r">>, <<"t">>, nm>>].kind # "none"
             /\ Contains(ext, <<nm[3]>>)}
    ELSE {}

\* the children the tables list for the directory id whose extension is
\* among ext, as positions in the list of the directory (the last one the
\* tables give for id)
DirOfTables(raw, id) ==
    raw.dirs[CHOOSE i \in 1..Len(raw.dirs) :
                /\ raw.dirs[i][1] = id
                /\ \A j \in 1..Len(raw.dirs) : raw.dirs[j][1] = id => j <= i][2]
MatchingChildren(raw, id, ext) ==
    {i \in 1..Len(DirOfTables(raw, id)) : Contains(ext, DirOfTables(raw, id)[i][2])}

\* a successful listing of a directory by one of the sources
Listed == res.op \in {"read_dir", "embedded_read_dir"} /\ res.out.st = "ok"

\* the leaf names a listing is expected to hold
ExpectedLeaves ==
    IF res.op = "read_dir"
    THEN {<<nm[1]>> : nm \in MatchingFiles(res.path, res.ext)}
    ELSE {DirOfTables(res.raw, res.id)[i][1] : i \in MatchingChildren(res.raw, res.id, res.ext)}

\* C15: read_dir of the file system source and of the embedded source
\* returns exactly the leaf names of the files of the directory whose
\* extension is in the set, and no leaf name more than once
C15_ReadDirNoDuplicate ==
    Listed => Range(res.out.v) = ExpectedLeaves /\ NoDuplicate(res.out.v)

\* what both sources do: the listing holds one leaf name per matching file,
\* so that a stem with two matching extensions is listed twice
C15_OneLeafPerFile ==
    Listed =>
        /\ Range(res.out.v) = ExpectedLeaves
        /\ Len(res.out.v) =
              IF res.op = "read_dir"
              THEN Cardinality(MatchingFiles(res.path, res.ext))
              ELSE Cardinality(MatchingChildren(res.raw, res.id, res.ext))

\* the file system source has listed "a" twice for a.x and a.y
C15_ListedTwice ==
    /\ res.op = "read_dir" /\ res.out = IoOk(<< <<"a">>, <<"a">> >>)
    /\ res.id = <<"t">> /\ res.ext = << <<"x">>, <<"y">> >>

\* the embedded source has listed "a" twice for (a, x) and (a, y)
C15_EmbeddedListedTwice ==
    /\ res.op = "embedded_read_dir"
    /\ res.out = IoOk(<< <<"a">>, <<"a">>, <<"b">> >>)

\* the positions of the pairs of a table of the embedded source that have
\* the key k
PairsOf(pairs, k) == {i \in 1..Len(pairs) : pairs[i][1] = k}

\* C16: Embedded::read(id, ext) returns the bytes the files table gives for
\* the exact pair (id, ext) (those of its last pair, when the table names
\* the pair more than once) and NotFound for every pair the table does not
\* name; Embedded::read_dir(id, exts) fails, with NotFound, exactly when the
\* dirs table does not name id, and returns the empty list for a directory
\* the table names of which no child has an extension of exts
C16_EmbeddedLookup ==
    /\ res.op = "embedded_read" =>
          LET at == PairsOf(res.raw.files, <<res.id, res.ext>>) IN
          IF at = {} THEN res.out = IoNotFound
          ELSE res.out = IoOk(res.raw.files[CHOOSE i \in at : \A j \in at : j <= i][2])
    /\ res.op = "embedded_read_dir" =>
          /\ res.out.st \in {"ok", "notfound"}
          /\ res.out.st = "notfound" <=> PairsOf(res.raw.dirs, res.id) = {}
          /\ (res.out.st = "ok" /\ MatchingChildren(res.raw, res.id, res.ext) = {})
                => res.out = IoOk(<<>>)

\* C16 witness: read_dir of the embedded source has returned the empty list
\* for a directory that has a child, of another extension
C16_Witness ==
    /\ res.op = "embedded_read_dir" /\ res.out = IoOk(<<>>)
    /\ PairsOf(res.raw.dirs, res.id) # {}
    /\ DirOfTables(res.raw, res.id) # <<>>

\* the embedded source has returned the bytes of (t.a, y), has found no file
\* for an extension the id is not listed with, and no directory for an id
\* that names a file
C16_ReadExactPair ==
    /\ res.op = "embedded_read" /\ res.out = IoOk(<<"2">>)
    /\ res.id = <<"t", Dot, "a">> /\ res.ext = <<"y">>
C16_ReadOtherExt ==
    /\ res.op = "embedded_read" /\ res.out = IoNotFound
    /\ res.id = <<"t", Dot, "b">> /\ res.ext = <<"y">>
    /\ PairsOf(res.raw.files, <<res.id, <<"x">>>>) # {}
C16_ReadDirMissing ==
    /\ res.op = "embedded_read_dir" /\ res.out = IoNotFound
    /\ res.id = <<"t", Dot, "a">> /\ res.raw # NoRaw

\* a call of FileSystem::new or FileSystem::without_hot_reloading has returned
Constructed == res.op \in {"new", "without_hot_reloading"}

\* what the path given to the constructor names: nothing, a directory that
\* can be read, or something else (a file, a directory that cannot be read)
RootKind(path) ==
    LET r == Resolve(path) IN
    IF r \in Dirs THEN (IF r \in Unreadable THEN "other" ELSE "dir")
    ELSE IF r \in DOMAIN disk /\ disk[r].kind # "none" THEN "other"
    ELSE "missing"

\* C17: FileSystem::new(path) succeeds when path names a directory that can
\* be read, and the source then holds the canonical path of that directory;
\* it fails with NotFound when path names nothing and with another I/O
\* error when path names a file or a directory that cannot be read; when it
\* fails there is no source and no hot-reloader was started; without
\* hot-reloading no hot-reloader is started at all
C17_NewSource ==
    Constructed =>
        /\ res.out.st = (CASE RootKind(res.path) = "dir" -> "ok"
                           [] RootKind(res.path) = "missing" -> "notfound"
                           [] OTHER -> "io")
        /\ res.out.st = "ok" => res.out.path = JoinPath(Resolve(res.path))
        /\ res.out.st # "ok" => res.out.path = <<>> /\ res.out.reloader = "none"
        /\ res.op = "without_hot_reloading" => res.out.reloader = "none"

\* C17 witness: the construction of a source over a file has failed with an
\* I/O error that is not NotFound
C17_Witness ==
    /\ res.op = "new" /\ res.out.st = "io" /\ res.out.reloader = "none"
    /\ res.path = <<Slash, "r", Slash, "t", Slash, "a", Dot, "x">>
    /\ disk[PlaceAX].kind = "file"

\* constructions that have succeeded with a hot-reloader over a relative
\* path of the root, failed over a missing path, and failed over a
\* directory that cannot be read
C17_Started ==
    /\ res.op = "new" /\ res.out.st = "ok" /\ res.out.reloader = "started"
    /\ res.path = <<"r">> /\ res.out.path = Root
C17_Missing ==
    res.op = "new" /\ res.out.st = "notfound" /\ res.path = <<Slash, "q">>
C17_Unreadable ==
    res.op = "new" /\ res.out.st = "io" /\ res.path = <<Slash, "l">>

\* the characters of the segments of an id: [A-Za-z0-9_-]
SegmentChars == {"a", "b", "c", "r", "t", "1", "_", "-"}

\* an id of the id grammar: non-empty segments of these characters,
\* separated by dots
IsGrammarId(id) ==
    \A seg \in Range(Split(id, Dot)) :
        Len(seg) > 0 /\ \A i \in 1..Len(seg) : seg[i] \in SegmentChars

\* id.replace('.', '/')
ReplaceDots(id) == [i \in 1..Len(id) |-> IF id[i] = Dot THEN Slash ELSE id[i]]

\* C18: for an id of the id grammar, path_of(id, ext) is the text of the
\* root, a separator, the id with every dot replaced by a separator and,
\* unless ext is empty, "." and ext: the segments of the id are the
\* components under the root, the last one carrying the extension
C18_PathOf ==
    (res.op = "path_of" /\ IsGrammarId(res.id)) =>
        res.path = Root \o <<Slash>> \o ReplaceDots(res.id)
                        \o (IF res.ext = <<>> THEN <<>> ELSE <<Dot>> \o res.ext)

\* C18 witness: path_of has given the path of an id of three segments with
\* an extension of two letters
C18_Witness ==
    /\ res.op = "path_of"
    /\ res.id = <<"r", Dot, "t", Dot, "a">> /\ res.ext = <<"g", "z">>
    /\ res.path = <<Slash, "r", Slash, "r", Slash, "t", Slash, "a", Dot, "g", "z">>

\* path_of has given the path of a directory for the empty extension
C18_DirectoryPath ==
    /\ res.op = "path_of" /\ res.id = <<"t">> /\ res.ext = <<>>
    /\ res.path = <<Slash, "r", Slash, "t">>

\* the resolved path lies inside the root of the source (the root itself
\* included)
InsideRoot(path) ==
    LET r == Resolve(path) root == Resolve(Root) IN
    Len(r) >= Len(root) /\ SubSeq(r, 1, Len(root)) = root

\* a call of the file system source that reads the file system
ReadsFileSystem == res.op \in {"read", "read_dir"}

\* C19: for every id string, FileSystem::read and FileSystem::read_dir fail
\* without reading the file system or read a path that lies inside the root
\* of the source (both functions read the path path_of gives, whatever the
\* id is)
C19_InsideRoot ==
    ReadsFileSystem => InsideRoot(res.path)

\* what the code ensures: the path read lies inside the root for the ids of
\* the id grammar
C19_GrammarInsideRoot ==
    (ReadsFileSystem /\ IsGrammarId(res.id)) => InsideRoot(res.path)

\* read_dir has listed the directory "/" for the id "/", and read has read
\* "/r.x", beside the root, for the empty id
C19_ListsOutside ==
    /\ res.op = "read_dir" /\ res.id = <<Slash>>
    /\ res.path = <<Slash>> /\ res.out.st = "ok"
C19_EmptyIdBesideRoot ==
    /\ res.op = "read" /\ res.id = <<>> /\ res.ext = <<"x">>
    /\ res.path = <<Slash, "r", Dot, "x">>

\* the ids that are not of the grammar and whose path lies inside the root
C19_SeparatorInside ==
    /\ res.op = "read" /\ res.id = <<"t", Slash, "a">> /\ res.ext = <<"x">>
    /\ res.path = <<Slash, "r", Slash, "t", Slash, "a", Dot, "x">>
    /\ disk[PlaceAX].kind = "file" /\ res.out = IoOk(disk[PlaceAX].bytes)

-----------------------------------------------------------------------------
(* Properties of the reloads *)

\* the last operation was a reload that failed
ReloadFailed == res.op = "reload" /\ res.st # "ok"

\* C20: a reload that fails, by an I/O error of the source or by the
\* loader, changes nothing: the entry, its value, its lock and the handles
\* are as before, and the worker is not inside CacheEntry::write, so that
\* the lock is not held on its account and a read can take it. A read right
\* after the failed reload returns the value held before it. The value of an
\* entry changes only in the assignment of CacheEntry::write, which a
\* worker reaches only from a reload that succeeded
C20_FailedReload ==
    /\ [](ReloadFailed =>
            /\ table[res.key] # NoEntry
            /\ \A w \in Reloaders : wr[w].pc = "idle"
            /\ CanRead(heap, table[res.key].data))
    /\ [][ /\ (res'.op = "reload" /\ res'.st # "ok") =>
                 /\ res'.st \in {"notfound", "io", "loader"}
                 /\ UNCHANGED <<heap, table, hs, gs, wr, made, dropped>>
           /\ (ReloadFailed /\ res'.st = "read" /\ res'.key = res.key) =>
                 res'.v = ValueOf(res.key)
           /\ \A k \in Held :
                 heap'[table[k].data].val # heap[table[k].data].val =>
                    /\ res'.op = "write_store"
                    /\ \E w \in Reloaders : wr[w].pc = "locked" /\ wr[w].key = k
           /\ \A w \in Reloaders :
                 (wr[w].pc = "idle" /\ wr'[w].pc # "idle") =>
                    res'.op = "reload" /\ res'.st = "ok"
      ]_vars

\* C20 witness: the reload of an entry has failed with a loader error,
\* the file having been changed to bytes that are no number, while the user
\* holds a read guard of the entry, which still holds the number loaded
C20_Witness ==
    /\ ReloadFailed /\ res.st = "loader"
    /\ gs.h = table[res.key].data
    /\ ValueOf(res.key).n = 1
    /\ ~heap[table[res.key].data].writer

\* reloads that have failed with an I/O error, and a read that has
\* returned the number loaded although the file is no number any more
C20_FailedIo ==
    ReloadFailed /\ res.st = "io" /\ ValueOf(res.key).n = 1
C20_ReadAfterFailure ==
    /\ res.st = "read" /\ res.v.n = 1 /\ res.key[1] = "X"
    /\ disk[PlaceAX] = BadFile /\ edits = 1

-----------------------------------------------------------------------------
(* The cascade of the hot-reloader *)

\* the compound of a key is registered with the hot-reloader with d among
\* its dependencies
RegisteredDep(key, d) ==
    reloader.started /\ \E c \in reloader.compounds : c.key = key /\ d \in c.deps

\* the watcher has seen a change of a file of the asset d
ChangeSeen(d) ==
    \E i \in 1..Len(EXTENSIONS(d[1])) :
        path_of(d[2], EXTENSIONS(d[1])[i]) \in reloader.events

\* a task has run in the current batch
HasRun(t) == \E i \in 1..Len(reloader.done) : reloader.done[i] = t

\* the sum of the numbers of the assets a compound is built of
BuiltOf(key) ==
    heap[table[<<"X", <<"t", Dot, "a">>>>].data].val.n
    + heap[table[<<"Y", key[2]>>].data].val.n

\* the compound of a key has just been rebuilt, after the reload of d
RebuiltAfter(key, d) ==
    /\ res.op = "rebuild" /\ res.key = key /\ res.st = "ok"
    /\ HasRun(Task("asset", d))

\* a rebuild leaves the tasks of the assets of its batch behind it, and
\* what it stores is built of the assets as they are now
RebuildLast ==
    (res.op = "rebuild" /\ res.st = "ok") =>
        /\ \A i \in 1..Len(reloader.tasks) : reloader.tasks[i].kind # "asset"
        /\ table[res.key] # NoEntry
        /\ heap[table[res.key].data].val = res.v
        /\ res.v.n = BuiltOf(res.key)

\* a reload or a rebuild overwrites in place: the entry keeps its box, and
\* the handle of the user stays a handle on it
InPlace ==
    \A k \in HotKeys :
        (table[k] # NoEntry /\ res'.op \in {"reload", "rebuild"}) =>
            /\ table'[k].data = table[k].data
            /\ heap'[table[k].data].live
            /\ (hs.h.eid = table[k].eid) =>
                  ptr_eq(hs'.h, CacheEntry_get_ref(table'[k], k[1]))

C21_SecondDependency ==
    /\ RebuiltAfter(<<"Z", <<"t", Dot, "b">>>>, <<"Y", <<"t", Dot, "b">>>>)
    /\ disk[<<<<"r">>, <<"t">>, <<"b", Dot, "y">>>>] = File(<<"2">>)
    /\ res.v.n = 3

\* a change whose rebuild never came, because clear() emptied the cache first
C21_ClearedFirst ==
    /\ res.op = "rebuild" /\ res.st = "absent"

-----------------------------------------------------------------------------
(* The loaders *)

\* the digits of a text with its leading zeros taken off
RECURSIVE StripZeros(_)
StripZeros(s) ==
    IF Len(s) > 1 /\ Head(s) = "0" THEN StripZeros(Tail(s)) ELSE s

\* s is before t, or t itself, among the digit texts of one length
RECURSIVE DigitsLeq(_, _)
DigitsLeq(s, t) ==
    \/ Len(s) = 0
    \/ DigitVal(Head(s)) < DigitVal(Head(t))
    \/ Head(s) = Head(t) /\ DigitsLeq(Tail(s), Tail(t))

\* the sign and the digits of a text: the sign is optional
SignOf(s) == IF StartsWith(s, "-") THEN -1 ELSE 1
DigitsOf(s) == IF StartsWith(s, "-") \/ StartsWith(s, "+") THEN Tail(s) ELSE s

\* a text is a number of i32: digits, at least one, after the sign, that
\* do not pass 2147483647, or 2147483648 below zero
IsI32Text(s) ==
    LET d == StripZeros(DigitsOf(s))
        limit == IF SignOf(s) < 0 THEN Format(-2147483647 - 1) ELSE <<"+">> \o Format(2147483647)
    IN  /\ Len(DigitsOf(s)) > 0
        /\ \A i \in 1..Len(DigitsOf(s)) : IsDigit(DigitsOf(s)[i])
        /\ Len(d) <= 10
        /\ Len(d) = 10 => DigitsLeq(d, Tail(limit))

\* the number a text of i32 stands for: the sum of its digits, each times
\* its power of ten, below zero after a minus sign
RECURSIVE Pow10(_)
Pow10(k) == IF k = 0 THEN 1 ELSE 10 * Pow10(k - 1)
RECURSIVE SumDigits(_, _)
SumDigits(d, sign) ==
    IF Len(d) = 0 THEN 0
    ELSE sign * DigitVal(Head(d)) * Pow10(Len(d) - 1) + SumDigits(Tail(d), sign)
NumberOf(s) == SumDigits(StripZeros(DigitsOf(s)), SignOf(s))

\* C22: LoadFrom<i32, ParseLoader>::load gives what ParseLoader::load gives
\* for the same bytes and extension: its value converted into the asset
\* type, or its error as it is. ParseLoader::load gives n for the decimal
\* text of an i32 n; it gives a number exactly for the texts that are a
\* number of i32, and that number; it fails with the error of from_utf8 on
\* bytes that are no UTF-8 text and with the error of the parser on any
\* other text; the extension changes nothing
C22_Loaders ==
    res.op \in {"ParseLoader", "LoadFrom"} =>
        /\ res.op = "LoadFrom" =>
              /\ res.inner.ok => res.out = Ok(Into(res.T, res.inner.v))
              /\ ~res.inner.ok => res.out = res.inner
        /\ res.op = "ParseLoader" => res.out = res.inner
        /\ res.n.some => res.inner = Ok(res.n.v)
        /\ ~IsUtf8(res.content) => res.inner = Err("Utf8Error")
        /\ (IsUtf8(res.content) /\ IsI32Text(res.content)) =>
              res.inner = Ok(NumberOf(res.content))
        /\ (IsUtf8(res.content) /\ ~IsI32Text(res.content)) =>
              /\ ~res.inner.ok
              /\ res.inner.err \in {"Empty", "InvalidDigit", "PosOverflow", "NegOverflow"}
        /\ res.inner = ParseLoader_load(res.content, <<>>)

\* C22 witness: LoadFrom has made X(-2147483648) of the text of the least
\* i32
C22_Witness ==
    /\ res.op = "LoadFrom" /\ res.T = "X"
    /\ res.n = Some(-2147483647 - 1)
    /\ res.content = <<"-", "2", "1", "4", "7", "4", "8", "3", "6", "4", "8">>
    /\ res.out = Ok([ty |-> "X", n |-> -2147483647 - 1])

\* the errors of the inner loader that LoadFrom has returned as they are:
\* no UTF-8, a number past the range, no number
C22_Utf8Error ==
    /\ res.op = "LoadFrom" /\ res.content = <<"1", BadByte>>
    /\ res.out = Err("Utf8Error")
C22_Overflow ==
    /\ res.op = "LoadFrom"
    /\ res.content = <<"2", "1", "4", "7", "4", "8", "3", "6", "4", "8">>
    /\ res.out = Err("PosOverflow")
C22_InvalidDigit ==
    /\ res.op = "ParseLoader" /\ res.content = <<"1", "n">>
    /\ res.out = Err("InvalidDigit")

-----------------------------------------------------------------------------
(* The locks an overwrite takes *)

\* a thread is inside write on the entry named key: it waits for the lock
\* of the entry or holds it
Writing(w, key) == wr[w].pc # "idle" /\ wr[w].key = key

\* a thread holds the write lock of the entry the handle h points to
WriteHeld(h) ==
    \E w \in Workers : wr[w].pc \in {"locked", "stored"} /\ wr[w].lock.data = h.data

\* the handle in hv can be read through: no guard is kept beside it yet and
\* its entry is in the table
Readable(hv) == hs[hv] # NoHandle /\ gs[hv] = 0 /\ KeysOf(hs[hv]) # {}

C23_Blocked ==
    \E w \in Workers :
        /\ wr[w].pc = "waiting"
        /\ heap[wr[w].lock.data].readers > 0
        /\ res.op = "load" /\ res.st = "ok" /\ res.reads = 0

-----------------------------------------------------------------------------
(* Entries that move *)

\* the handles kept on the entry e
HandlesOn(e) == {hv \in HandleVars : hs[hv] # NoHandle /\ hs[hv].eid = e.eid}

\* C24: a move of an entry changes neither the address of its lock nor the
\* box: the heap is as before, and every handle obtained before the move is
\* ptr_eq to the handle the moved entry gives and points to the same live
\* lock holding the same value; and at any time, the handle in hand and the
\* older one, when they come from one entry still held, are ptr_eq
C24_MoveKeepsLock ==
    /\ [][res'.op = "move" =>
            \E k \in Keys :
                /\ table[k] # NoEntry /\ table'[k] = NoEntry
                /\ table'[res'.key].data = table[k].data
                /\ heap' = heap
                /\ \A hv \in HandlesOn(table[k]) :
                      LET after == CacheEntry_get_ref(table'[res'.key], hs[hv].ty) IN
                      /\ ptr_eq(hs'[hv], after)
                      /\ heap'[after.data].live
                      /\ heap'[after.data].val = heap[hs[hv].data].val]_vars
    /\ [](\A k \in Keys :
            (table[k] # NoEntry /\ HandlesOn(table[k]) = HandleVars)
                => ptr_eq(hs.h, hs.old) /\ heap[hs.old.data].live)

\* an entry has moved while a handle on it was kept and a read guard held
\* through it
C24_Witness ==
    /\ res.op = "move"
    /\ hs.old # NoHandle /\ hs.old.eid = table[res.key].eid
    /\ gs.old # 0

\* a handle obtained before the move and one obtained after it, while the
\* entry was overwritten in between: the older one reads the new value
C24_BeforeAndAfter ==
    /\ res.op = "old" /\ res.st = "read"
    /\ \E T \in Types : table[<<T, <<"t", Dot, "b">>>>] # NoEntry
                         /\ table[<<T, <<"t", Dot, "b">>>>].eid = hs.old.eid
                         /\ hs.h.eid = hs.old.eid
                         /\ hs.old.seen = 0 /\ hs.h.seen # 0
                         /\ res.v.id = table[<<T, <<"t", Dot, "b">>>>].written

-----------------------------------------------------------------------------
(* Sources without a hot-reloader *)

Constructions == {"new", "without_hot_reloading"}
Hooks == {"watch_asset", "watch_dir", "watch_compound", "clear"}

\* C25: FileSystem::new(path) succeeds or fails exactly as
\* without_hot_reloading(path) does, whether the hot-reloader starts or not;
\* a source has a hot-reloader only when it was made by new, and
\* _support_hot_reloading tells whether it has one; on a source without one
\* the hooks send no message and change nothing
C25_ReloaderOptional ==
    /\ [][ /\ res'.op \in Constructions =>
               /\ res'.st \in {o.st : o \in FileSystem_new(res'.path, FALSE)}
               /\ (res'.st = "ok" => reloader'.asked = (res'.op = "new"))
               /\ (res'.st = "ok" => reloader'.queue = <<>>)
               /\ (res'.st # "ok" => reloader' = reloader)
           /\ (res'.op \in Hooks /\ ~reloader.started) =>
               UNCHANGED <<reloader, heap, table, hs, gs, wr, disk, made, dropped, edits>>
          ]_vars
    /\ [](reloader.started => reloader.asked)
    /\ [](res.op = "support" => res.v = reloader.started)
    /\ [](~reloader.started => reloader.queue = <<>>)

\* the hot-reloader failed to start, the construction has succeeded, and a
\* hook is called on the source
C25_Witness ==
    /\ reloader.asked /\ ~reloader.started
    /\ res.op = "watch_asset"

\* hot-reloading is reported as not supported by a source made by new, and
\* as supported by another
C25_Unsupported == res.op = "support" /\ reloader.asked /\ ~res.v
C25_Supported == res.op = "support" /\ res.v

\* a hook has sent its messages on a source with a hot-reloader
C25_Sent ==
    /\ res.op = "watch_asset" /\ reloader.started
    /\ Len(reloader.queue) = 2
    /\ reloader.queue[2].msg = "AddAsset"

-----------------------------------------------------------------------------
(* The destructors of the values of an entry *)

\* the counts of the destructors after those of the values S have run once
\* more
Destroyed(S) == [i \in Insts |-> IF i \in S THEN dropped[i] + 1 ELSE dropped[i]]

Destroying == {"write_store", "drop_entry", "drop_cache", "into_inner"}

\* C26: the assignment of a write, made while its thread holds the write
\* lock, runs the destructor of the value it replaces, once, and not that of
\* the new value; the drop of an entry runs the destructor of the value it
\* holds; into_inner returns the value held and runs no destructor; no other
\* step runs one. No destructor runs twice, none runs for a value an entry
\* holds or a write is about to store
C26_DestroyedOnce ==
    /\ [][ /\ res'.op = "write_store" =>
               \E w \in Workers :
                   /\ wr[w].pc = "locked" /\ wr'[w].pc = "stored"
                   /\ heap[wr[w].lock.data].writer
                   /\ heap[wr[w].lock.data].val.id # wr[w].asset.id
                   /\ dropped[heap[wr[w].lock.data].val.id] = 0
                   /\ dropped' = Destroyed({heap[wr[w].lock.data].val.id})
                   /\ heap'[wr[w].lock.data].val = wr[w].asset
           /\ res'.op = "drop_entry" =>
               /\ res'.v = ValueOf(res'.key)
               /\ dropped[res'.v.id] = 0
               /\ dropped' = Destroyed({res'.v.id})
           /\ res'.op = "drop_cache" =>
               dropped' = Destroyed({ValueOf(k).id : k \in Held})
           /\ res'.op = "into_inner" =>
               /\ res'.v = ValueOf(res'.key)
               /\ dropped[res'.v.id] = 0
               /\ dropped' = dropped
           /\ res'.op \notin Destroying => dropped' = dropped
          ]_vars
    /\ [](\A i \in Insts : dropped[i] <= 1 /\ (i > made => dropped[i] = 0))
    /\ [](\A k \in Held : dropped[ValueOf(k).id] = 0)
    /\ [](\A w \in Workers :
            wr[w].pc \in {"waiting", "locked"} => dropped[wr[w].asset.id] = 0)

\* one entry, two writes on it and its drop: three destructors have run
C26_Witness ==
    /\ res.op = "drop_entry" /\ res.v.id = 3
    /\ made = 3 /\ Held = {}
    /\ hs.old.eid = 1 /\ hs.old.seen = 2
    /\ hs.h.eid = 1 /\ hs.h.seen = 3
    /\ \A i \in Insts : dropped[i] = 1

\* one entry, two writes on it and into_inner: two destructors have run,
\* and the caller has the last value
C26_IntoInner ==
    /\ res.op = "into_inner" /\ res.v.id = 3
    /\ made = 3 /\ Held = {}
    /\ hs.old.eid = 1 /\ hs.old.seen = 2
    /\ hs.h.eid = 1 /\ hs.h.seen = 3
    /\ dropped[1] = 1 /\ dropped[2] = 1 /\ dropped[3] = 0

-----------------------------------------------------------------------------
(* Writes that wait for readers *)

\* the thread w is inside write on a lock on which it holds a read guard
SelfBlocked(w) ==
    /\ wr[w].pc = "waiting"
    /\ OwnGuards(w, wr[w].lock.data) # {}

\* the thread w waits for the write lock at address a
WaitsFor(w, a) == wr[w].pc = "waiting" /\ wr[w].lock.data = a

\* the write of the thread w is over: it has returned, or panicked
Over(w) == wr[w].pc \in {"idle", "panicked"}

\* C27: from the time a write holds the lock to its return there is no read
\* guard on the entry; a write that waits is over in the end provided that
\* from some time on there is no read guard on the entry at all; and a
\* thread inside write on an entry on which it holds a read guard stays
\* there, or panics, and never returns
C27_WriteWaitsForReaders ==
    /\ [](\A w \in Workers :
            wr[w].pc \in {"locked", "stored"} => GuardsOf(wr[w].lock.data) = {})
    /\ \A w \in Workers, a \in Addrs :
            (<>[](GuardsOf(a) = {})) => (WaitsFor(w, a) ~> Over(w))
    /\ [][\A w \in Workers :
            /\ SelfBlocked(w) => (SelfBlocked(w)' \/ wr'[w].pc = "panicked")
            /\ wr[w].pc = "panicked" => wr'[w].pc = "panicked"]_vars

\* the original reading: a write that waits returns in the end provided
\* each read guard on the entry is dropped again and again
C27_EveryGuardDropped ==
    \A w \in Workers, a \in Addrs :
        (\A hv \in HandleVars : []<>(gs[hv] # a)) => (WaitsFor(w, a) ~> Over(w))

\* a thread waits inside write for the lock of an entry on which the two
\* other threads hold read guards
C27_Witness ==
    \E a \in Addrs :
        /\ WaitsFor("w1", a) /\ ~SelfBlocked("w1")
        /\ Cardinality(GuardsOf(a)) = 2

\* a thread is inside write on the entry on which it holds a read guard
C27_SelfBlocked == SelfBlocked("w2") /\ res.op = "write_call"

\* a write has returned, by which a handle obtained before it reads the
\* new value, while another thread waits inside write
C27_Returned ==
    /\ res.op = "write" /\ res.st = "ok"
    /\ hs.old.eid = hs.h.eid /\ hs.old.seen # hs.h.seen
    /\ wr["w2"].pc = "waiting" /\ ~SelfBlocked("w2")

\* a write has panicked in a thread that held a read guard on the entry
C27_Panicked == wr["w2"].pc = "panicked" /\ res.op = "write_panic"

====
